---- MODULE Spec2Model ----
(***************************************************************************)
(* Model of the git tools server: the repository cache manager (cloneRepo), *)
(* the search-result structurer of handleGitSearchCode, and the tool       *)
(* handlers with the dispatcher that calls them.                           *)
(***************************************************************************)
EXTENDS Integers, Sequences, FiniteSets, TLC

(***************************************************************************)
(* Bounds of the model.                                                    *)
(***************************************************************************)
\* Highest revision an upstream repository reaches.
MaxRev == 1

\* Repository URLs handed to cloneRepo, and the invocations that may run.
URLs == {"u", "v", "w"}
Procs == {"p1", "p2"}

(***************************************************************************)
(* cloneRepo: deterministic directory name.  The sha256 digest is cut to   *)
(* 12 hex digits, so two URLs may share a key: "u" and "v" do here.        *)
(***************************************************************************)
RepoHash(repoUrl) == IF repoUrl \in {"u", "v"} THEN "k1" ELSE "k2"

TempDir(repoUrl) == <<"github_tools_", RepoHash(repoUrl)>>

Keys == {RepoHash(x) : x \in URLs}

(***************************************************************************)
(* Content of one cache directory.  kind is "absent" (no directory),       *)
(* "empty" (an empty directory), "junk" (files, no repository), "repo" (a  *)
(* complete working copy) or "partial" (a half-cloned or half-deleted      *)
(* working copy).  remotes lists the fetch URLs of the configured remotes  *)
(* in the order git reports them; rev is the checked-out revision.         *)
(***************************************************************************)
Dir(kind, remotes, rev) == [kind |-> kind, remotes |-> remotes, rev |-> rev]

Absent == Dir("absent", <<>>, 0)
EmptyDir == Dir("empty", <<>>, 0)
Junk == Dir("junk", <<>>, 0)

RemoteLists == {<<>>, <<"u", "v">>, <<"v", "u">>} \cup {<<x>> : x \in URLs}

InitContents == {Absent, EmptyDir, Junk} \cup {Dir("repo", r, 0) : r \in RemoteLists}

NoResult == [ok |-> FALSE, path |-> <<>>, msg |-> <<>>]

VARIABLES
    fs,        \* cache root: key -> content of the directory github_tools_<key>
    upstream,  \* URL -> head revision of the remote repository
    pc,        \* invocation -> position in cloneRepo
    url,       \* invocation -> repoUrl argument
    ops,       \* invocation -> I/O operations issued so far, in order
    failed,    \* invocation -> operations that failed by a network/auth error
    pre,       \* invocation -> content of the slot when the call started
    res,       \* invocation -> value returned or error thrown
    prev       \* the last completed call: its URL and its result

cacheVars == <<fs, upstream, pc, url, ops, failed, pre, res, prev>>


(***************************************************************************)
(* Helpers of cloneRepo.                                                   *)
(***************************************************************************)
\* One directory for every URL.
SlotShared(p) == "k1"

Slot(p) == RepoHash(url[p])

Step(p, next, op) ==
    /\ pc' = [pc EXCEPT ![p] = next]
    /\ ops' = [ops EXCEPT ![p] = Append(@, op)]

\* Mutant of RemoteMatches: the fetch URL is not compared.
RemoteMatchesAnyUrl(remotes, repoUrl) == Len(remotes) > 0

\* remotes.length > 0 && remotes[0].refs.fetch === repoUrl
RemoteMatches(remotes, repoUrl) == Len(remotes) > 0 /\ remotes[1] = repoUrl

\* git clone refuses a destination that exists and is not an empty directory.
CloneTargetFree(dir) == dir.kind \in {"absent", "empty"}

\* new Error(`Failed to clone repository: ${error.message}`)
CloneError(cause) ==
    [ok |-> FALSE, path |-> <<>>, msg |-> <<"Failed to clone repository: ", cause>>]

Returned(path) == [ok |-> TRUE, path |-> path, msg |-> <<>>]

(***************************************************************************)
(* cloneRepo(repoUrl), one action per awaited I/O operation.               *)
(***************************************************************************)
\* A cloneRepo with a lock per key: a call starts only when no other call
\* is at work on the same directory.
StartLocked(p, u) ==
    /\ pc[p] = "idle"
    /\ \A q \in Procs \ {p} :
          pc[q] \in {"idle", "done"} \/ RepoHash(url[q]) # RepoHash(u)
    /\ pc' = [pc EXCEPT ![p] = "pathExists"]
    /\ url' = [url EXCEPT ![p] = u]
    /\ ops' = [ops EXCEPT ![p] = <<>>]
    /\ failed' = [failed EXCEPT ![p] = {}]
    /\ pre' = [pre EXCEPT ![p] = fs[RepoHash(u)]]
    /\ res' = [res EXCEPT ![p] = NoResult]
    /\ UNCHANGED <<fs, upstream, prev>>

\* The call starts: the arguments are bound, nothing has been awaited yet.
Start(p, u) ==
    /\ pc[p] = "idle"
    /\ pc' = [pc EXCEPT ![p] = "pathExists"]
    /\ url' = [url EXCEPT ![p] = u]
    /\ ops' = [ops EXCEPT ![p] = <<>>]
    /\ failed' = [failed EXCEPT ![p] = {}]
    /\ pre' = [pre EXCEPT ![p] = fs[RepoHash(u)]]
    /\ res' = [res EXCEPT ![p] = NoResult]
    /\ UNCHANGED <<fs, upstream, prev>>

\* Mutant of PathExists: an existing directory is never reused.
PathExistsNoReuse(p) ==
    /\ pc[p] = "pathExists"
    /\ Step(p, "ensureDir", "pathExists")
    /\ UNCHANGED <<fs, upstream, url, failed, pre, res, prev>>

\* if (await fs.pathExists(tempDir))
PathExists(p) ==
    /\ pc[p] = "pathExists"
    /\ IF fs[Slot(p)].kind # "absent"
          THEN Step(p, "getRemotes", "pathExists")
          ELSE Step(p, "ensureDir", "pathExists")
    /\ UNCHANGED <<fs, upstream, url, failed, pre, res, prev>>

\* Mutant of GetRemotes: an error of getRemotes is swallowed without the delete.
GetRemotesNoCleanup(p) ==
    /\ pc[p] = "getRemotes"
    /\ LET dir == fs[Slot(p)] IN
          \/ /\ dir.kind \in {"repo", "partial"}
             /\ IF RemoteMatches(dir.remotes, url[p])
                   THEN Step(p, "pull", "getRemotes")
                   ELSE Step(p, "ensureDir", "getRemotes")
          \/ /\ dir.kind # "repo"
             /\ Step(p, "ensureDir", "getRemotes")
    /\ UNCHANGED <<fs, upstream, url, failed, pre, res, prev>>

\* const remotes = await git.getRemotes(true); the comparison of line 26
\* follows without another await.  Reading the remotes of a directory that is
\* no repository throws; a half-written repository may answer or throw.
GetRemotes(p) ==
    /\ pc[p] = "getRemotes"
    /\ LET dir == fs[Slot(p)] IN
          \/ /\ dir.kind \in {"repo", "partial"}
             /\ IF RemoteMatches(dir.remotes, url[p])
                   THEN Step(p, "pull", "getRemotes")
                   ELSE Step(p, "ensureDir", "getRemotes")
          \/ /\ dir.kind # "repo"
             /\ Step(p, "remove", "getRemotes")
    /\ UNCHANGED <<fs, upstream, url, failed, pre, res, prev>>

\* Mutant of Pull: the pull stands outside the try block, its error reaches
\* the caller.
PullOutsideTry(p) ==
    /\ pc[p] = "pull"
    /\ LET dir == fs[Slot(p)] IN
          \/ /\ dir.kind = "repo"
             /\ Len(dir.remotes) > 0
             /\ fs' = [fs EXCEPT ![Slot(p)] =
                          Dir("repo", dir.remotes, upstream[dir.remotes[1]])]
             /\ Step(p, "done", "pull")
             /\ res' = [res EXCEPT ![p] = Returned(TempDir(url[p]))]
             /\ UNCHANGED failed
          \/ /\ dir.kind = "partial"
             /\ Step(p, "done", "pull")
             /\ res' = [res EXCEPT ![p] = Returned(TempDir(url[p]))]
             /\ UNCHANGED <<fs, failed>>
          \/ /\ Step(p, "done", "pull")
             /\ failed' = [failed EXCEPT ![p] = @ \cup {"pull"}]
             /\ res' = [res EXCEPT ![p] =
                           [ok |-> FALSE, path |-> <<>>, msg |-> <<"pull failed">>]]
             /\ UNCHANGED fs
    /\ UNCHANGED <<upstream, url, pre, prev>>

\* await git.pull(); return tempDir;  A pull that throws lands in the catch
\* block of line 31.  In a directory that another call is writing or
\* deleting the pull may go through or throw.
Pull(p) ==
    /\ pc[p] = "pull"
    /\ LET dir == fs[Slot(p)] IN
          \/ /\ dir.kind = "repo"
             /\ Len(dir.remotes) > 0
             /\ fs' = [fs EXCEPT ![Slot(p)] =
                          Dir("repo", dir.remotes, upstream[dir.remotes[1]])]
             /\ Step(p, "done", "pull")
             /\ res' = [res EXCEPT ![p] = Returned(TempDir(url[p]))]
             /\ UNCHANGED failed
          \/ /\ dir.kind = "partial"
             /\ Step(p, "done", "pull")
             /\ res' = [res EXCEPT ![p] = Returned(TempDir(url[p]))]
             /\ UNCHANGED <<fs, failed>>
          \/ /\ Step(p, "remove", "pull")
             /\ failed' = [failed EXCEPT ![p] = @ \cup {"pull"}]
             /\ UNCHANGED <<fs, res>>
    /\ UNCHANGED <<upstream, url, pre, prev>>

\* catch (error) { await fs.remove(tempDir); }: the recursive delete begins.
Remove(p) ==
    /\ pc[p] = "remove"
    /\ fs' = [fs EXCEPT ![Slot(p)] =
                 IF @.kind \in {"absent", "empty"} THEN @
                 ELSE Dir("partial", @.remotes, @.rev)]
    /\ Step(p, "removing", "remove")
    /\ UNCHANGED <<upstream, url, failed, pre, res, prev>>

\* Mutant of RemoveDone: the delete stops half way.
RemoveDoneIncomplete(p) ==
    /\ pc[p] = "removing"
    /\ pc' = [pc EXCEPT ![p] = "ensureDir"]
    /\ UNCHANGED <<fs, upstream, url, ops, failed, pre, res, prev>>

\* ... and ends: nothing is left at tempDir.
RemoveDone(p) ==
    /\ pc[p] = "removing"
    /\ fs' = [fs EXCEPT ![Slot(p)] = Absent]
    /\ pc' = [pc EXCEPT ![p] = "ensureDir"]
    /\ UNCHANGED <<upstream, url, ops, failed, pre, res, prev>>

\* await fs.ensureDir(tempDir);
EnsureDir(p) ==
    /\ pc[p] = "ensureDir"
    /\ fs' = [fs EXCEPT ![Slot(p)] = IF @.kind = "absent" THEN EmptyDir ELSE @]
    /\ Step(p, "clone", "ensureDir")
    /\ UNCHANGED <<upstream, url, failed, pre, res, prev>>

\* await simpleGit().clone(repoUrl, tempDir): git checks the destination and
\* starts writing the repository (the remote is configured first).
Clone(p) ==
    /\ pc[p] = "clone"
    /\ IF CloneTargetFree(fs[Slot(p)])
          THEN /\ fs' = [fs EXCEPT ![Slot(p)] = Dir("partial", <<url[p]>>, 0)]
               /\ Step(p, "cloning", "clone")
               /\ UNCHANGED res
          ELSE /\ Step(p, "cleanup", "clone")
               /\ res' = [res EXCEPT ![p] = CloneError("destination not empty")]
               /\ UNCHANGED fs
    /\ UNCHANGED <<upstream, url, failed, pre, prev>>

\* A clone whose error is thrown on without the delete of line 44.
CloneDoneNoCleanup(p) ==
    /\ pc[p] = "cloning"
    /\ \/ /\ fs' = [fs EXCEPT ![Slot(p)] =
                       Dir("repo", <<url[p]>>, upstream[url[p]])]
          /\ pc' = [pc EXCEPT ![p] = "done"]
          /\ res' = [res EXCEPT ![p] = Returned(TempDir(url[p]))]
          /\ UNCHANGED failed
       \/ /\ \E left \in {EmptyDir, Dir("partial", <<url[p]>>, 0)} :
                fs' = [fs EXCEPT ![Slot(p)] = left]
          /\ pc' = [pc EXCEPT ![p] = "done"]
          /\ res' = [res EXCEPT ![p] = CloneError("network")]
          /\ failed' = [failed EXCEPT ![p] = @ \cup {"clone"}]
    /\ UNCHANGED <<upstream, url, ops, pre, prev>>

\* The clone ends: return tempDir, or the catch block of line 42.  A failed
\* clone leaves what git did not clean up.
CloneDone(p) ==
    /\ pc[p] = "cloning"
    /\ \/ /\ fs' = [fs EXCEPT ![Slot(p)] =
                       Dir("repo", <<url[p]>>, upstream[url[p]])]
          /\ pc' = [pc EXCEPT ![p] = "done"]
          /\ res' = [res EXCEPT ![p] = Returned(TempDir(url[p]))]
          /\ UNCHANGED failed
       \/ /\ \E left \in {EmptyDir, Dir("partial", <<url[p]>>, 0)} :
                fs' = [fs EXCEPT ![Slot(p)] = left]
          /\ pc' = [pc EXCEPT ![p] = "cleanup"]
          /\ res' = [res EXCEPT ![p] = CloneError("network")]
          /\ failed' = [failed EXCEPT ![p] = @ \cup {"clone"}]
    /\ UNCHANGED <<upstream, url, ops, pre, prev>>

\* catch (error) { await fs.remove(tempDir); ...: the delete begins.
Cleanup(p) ==
    /\ pc[p] = "cleanup"
    /\ fs' = [fs EXCEPT ![Slot(p)] =
                 IF @.kind \in {"absent", "empty"} THEN @
                 ELSE Dir("partial", @.remotes, @.rev)]
    /\ Step(p, "cleaning", "remove")
    /\ UNCHANGED <<upstream, url, failed, pre, res, prev>>

\* Mutant of CleanupDone: the directory of the failed clone stays.
CleanupDoneKeepsDir(p) ==
    /\ pc[p] = "cleaning"
    /\ pc' = [pc EXCEPT ![p] = "done"]
    /\ UNCHANGED <<fs, upstream, url, ops, failed, pre, res, prev>>

\* A cloneRepo that tries the clone again after a failed one.
CleanupDoneRetries(p) ==
    /\ pc[p] = "cleaning"
    /\ fs' = [fs EXCEPT ![Slot(p)] = Absent]
    /\ pc' = [pc EXCEPT ![p] = IF Len(ops[p]) < 9 THEN "ensureDir" ELSE "done"]
    /\ UNCHANGED <<upstream, url, ops, failed, pre, res, prev>>

\* ... throw new Error(...) } once the delete has ended.
CleanupDone(p) ==
    /\ pc[p] = "cleaning"
    /\ fs' = [fs EXCEPT ![Slot(p)] = Absent]
    /\ pc' = [pc EXCEPT ![p] = "done"]
    /\ UNCHANGED <<upstream, url, ops, failed, pre, res, prev>>

\* The caller receives the path or the error.
Return(p) ==
    /\ pc[p] = "done"
    /\ pc' = [pc EXCEPT ![p] = "idle"]
    /\ prev' = [url |-> url[p], res |-> res[p]]
    /\ ops' = [ops EXCEPT ![p] = <<>>]
    /\ failed' = [failed EXCEPT ![p] = {}]
    /\ pre' = [pre EXCEPT ![p] = Absent]
    /\ res' = [res EXCEPT ![p] = NoResult]
    /\ UNCHANGED <<fs, upstream, url>>

\* The remote repository receives a commit.
Push(u) ==
    /\ upstream[u] < MaxRev
    /\ upstream' = [upstream EXCEPT ![u] = @ + 1]
    /\ UNCHANGED <<fs, pc, url, ops, failed, pre, res, prev>>

CacheInit ==
    /\ fs \in [Keys -> InitContents]
    /\ upstream = [u \in URLs |-> 0]
    /\ pc = [p \in Procs |-> "idle"]
    /\ url = [p \in Procs |-> "u"]
    /\ ops = [p \in Procs |-> <<>>]
    /\ failed = [p \in Procs |-> {}]
    /\ pre = [p \in Procs |-> Absent]
    /\ res = [p \in Procs |-> NoResult]
    /\ prev = [url |-> "", res |-> NoResult]

\* One call at a time: a call starts when no other call is running.
SeqStart(p, u) ==
    /\ \A q \in Procs : pc[q] = "idle"
    /\ Start(p, u)


(***************************************************************************)
(* handleGitSearchCode: the raw output of git grep -n -C<k>.  A line of    *)
(* text is a sequence of one-character strings; stdout is the sequence of  *)
(* its lines (the text between two "\n").                                  *)
(***************************************************************************)
\* Longest raw output, in lines.
MaxLines == 3

\* The decimal digits of n, as git grep prints a line number.
RECURSIVE Digits(_)
Digits(n) ==
    IF n < 10 THEN <<ToString(n)>>
    ELSE Digits(n \div 10) \o Digits(n % 10)

\* One line of git grep output, before it is printed: a match line
\* file:num:text, a context line file-num-text, or anything else (the "--"
\* separator between hunks, a blank line), printed as it is.
GrepLine(kind, file, num, text) ==
    [kind |-> kind, file |-> file, num |-> num, text |-> text]

Printed(l) ==
    CASE l.kind = "match"   -> l.file \o <<":">> \o Digits(l.num) \o <<":">> \o l.text
      [] l.kind = "context" -> l.file \o <<"-">> \o Digits(l.num) \o <<"-">> \o l.text
      [] OTHER              -> l.text

PrintedAll(ls) == [i \in 1..Len(ls) |-> Printed(ls[i])]

(***************************************************************************)
(* Character classes and the three regular expressions of the structurer.  *)
(***************************************************************************)
IsDigit(c) == c \in {"0","1","2","3","4","5","6","7","8","9"}
IsSpace(c) == c \in {" ", "\t"}

\* !line.trim()
IsBlank(line) == \A i \in 1..Len(line) : IsSpace(line[i])

\* Index of the first ":" of line at or after index from; 0 when there is none.
ColonFrom(line, from) ==
    LET cs == {i \in from..Len(line) : line[i] = ":"}
    IN  IF cs = {} THEN 0 ELSE CHOOSE i \in cs : \A j \in cs : i <= j

\* Index of the first character at or after from that is no digit
\* (Len(line) + 1 when the digits run to the end of the line).
DigitsEnd(line, from) ==
    LET ns == {i \in from..Len(line) : ~IsDigit(line[i])}
    IN  IF ns = {} THEN Len(line) + 1 ELSE CHOOSE i \in ns : \A j \in ns : i <= j

\* parseInt of a run of decimal digits.
RECURSIVE ParseInt(_)
ParseInt(ds) ==
    IF ds = <<>> THEN 0
    ELSE 10 * ParseInt(SubSeq(ds, 1, Len(ds) - 1))
         + (CHOOSE d \in 0..9 : ToString(d) = ds[Len(ds)])

NoMatch == [found |-> FALSE, name |-> <<>>, num |-> 0, content |-> <<>>]

Found(name, num, content) ==
    [found |-> TRUE, name |-> name, num |-> num, content |-> content]

\* stdout.split(/^(?=\S[^:]*:)/m): a piece begins at the start of line i when
\* the line begins with a non-space character and a ":" follows that character
\* anywhere in the rest of the output ([^:] also matches "\n").  The empty
\* match at index 0 splits nothing.
SplitsBefore(out, i) ==
    /\ i > 1
    /\ Len(out[i]) > 0
    /\ ~IsSpace(out[i][1])
    /\ \/ ColonFrom(out[i], 2) # 0
       \/ \E j \in (i + 1)..Len(out) : ColonFrom(out[j], 1) # 0

\* The pieces of the split, each the sequence of its lines.
RECURSIVE PiecesFrom(_, _)
PiecesFrom(out, i) ==
    IF i > Len(out) THEN <<>>
    ELSE LET nexts == {j \in (i + 1)..Len(out) : SplitsBefore(out, j)}
             stop  == IF nexts = {} THEN Len(out) + 1
                      ELSE CHOOSE j \in nexts : \A k \in nexts : j <= k
         IN  <<SubSeq(out, i, stop - 1)>> \o PiecesFrom(out, stop)

FileMatches(out) == PiecesFrom(out, 1)

\* firstLine.match(/^([^:]+):/)
FileNameMatch(firstLine) ==
    LET c == ColonFrom(firstLine, 1)
    IN  IF c >= 2 THEN Found(SubSeq(firstLine, 1, c - 1), 0, <<>>) ELSE NoMatch

\* line.match(/^([^-][^:]+):(\d+):(.*)/)
LineNumberMatch(line) ==
    IF Len(line) = 0 \/ line[1] = "-" THEN NoMatch
    ELSE LET c == ColonFrom(line, 2)
             e == DigitsEnd(line, c + 1)
         IN  IF c >= 3 /\ e > c + 1 /\ e <= Len(line) /\ line[e] = ":"
             THEN Found(SubSeq(line, 1, c - 1),
                        ParseInt(SubSeq(line, c + 1, e - 1)),
                        SubSeq(line, e + 1, Len(line)))
             ELSE NoMatch

\* line.match(/^([^:]+)-(\d+)-(.*)/): the first group is greedy, so of all the
\* "-digits-" that stand before the first ":" the last one is taken.
ContextMatch(line) ==
    LET c    == ColonFrom(line, 1)
        lim  == IF c = 0 THEN Len(line) ELSE c - 1
        cand == {p \in 2..lim :
                    /\ line[p] = "-"
                    /\ DigitsEnd(line, p + 1) > p + 1
                    /\ DigitsEnd(line, p + 1) <= lim
                    /\ line[DigitsEnd(line, p + 1)] = "-"}
    IN  IF cand = {} THEN NoMatch
        ELSE LET p == CHOOSE x \in cand : \A y \in cand : y <= x
                 e == DigitsEnd(line, p + 1)
             IN  Found(SubSeq(line, 1, p - 1),
                       ParseInt(SubSeq(line, p + 1, e - 1)),
                       SubSeq(line, e + 1, Len(line)))


(***************************************************************************)
(* The loop over the lines of one piece (lines 157 to 201).                *)
(***************************************************************************)
NoCurrent ==
    [file |-> <<>>, line_number |-> 0, content |-> <<>>,
     context_before |-> <<>>, context_after |-> <<>>]

ScanStart == [has |-> FALSE, currentMatch |-> NoCurrent,
              contextLines |-> <<>>, matches |-> <<>>]

\* A match line: the pending match is closed with the buffered context lines
\* as its context_after, and a new match starts with what the buffer holds.
StartMatch(st, fileName, lm) ==
    LET buffer == IF st.has THEN <<>> ELSE st.contextLines
    IN  [has |-> TRUE,
         currentMatch |->
             [file |-> fileName, line_number |-> lm.num, content |-> lm.content,
              context_before |-> buffer, context_after |-> <<>>],
         contextLines |-> <<>>,
         matches |->
             IF st.has
             THEN Append(st.matches,
                         [st.currentMatch EXCEPT !.context_after = st.contextLines])
             ELSE st.matches]

\* A context line is buffered.
AddContext(st, cm) ==
    [st EXCEPT !.contextLines =
        Append(@, [line_number |-> cm.num, content |-> cm.content])]

\* One turn of the loop of line 160.
ScanLine(st, fileName, line) ==
    IF IsBlank(line) THEN st
    ELSE IF LineNumberMatch(line).found
         THEN StartMatch(st, fileName, LineNumberMatch(line))
         ELSE IF ContextMatch(line).found
              THEN AddContext(st, ContextMatch(line))
              ELSE st

RECURSIVE ScanLines(_, _, _, _)
ScanLines(st, fileName, lines, i) ==
    IF i > Len(lines) THEN st
    ELSE ScanLines(ScanLine(st, fileName, lines[i]), fileName, lines, i + 1)

\* Add the last match if there is one (lines 197 to 201).
FlushLast(st) ==
    IF st.has
    THEN Append(st.matches, [st.currentMatch EXCEPT !.context_after = st.contextLines])
    ELSE st.matches

\* The matches of one piece whose first line gives the file name.
PieceMatches(fileName, lines) ==
    FlushLast(ScanLines(ScanStart, fileName, lines, 1))

\* A piece that is pushed whether it has a match or not.
PieceResultsUnchecked(lines) ==
    IF \A i \in 1..Len(lines) : IsBlank(lines[i]) THEN <<>>
    ELSE LET fm == FileNameMatch(lines[1])
         IN  IF ~fm.found THEN <<>>
             ELSE <<[file |-> fm.name, matches |-> PieceMatches(fm.name, lines)]>>

\* What one piece adds to results (lines 145 to 209).
PieceResults(lines) ==
    IF \A i \in 1..Len(lines) : IsBlank(lines[i]) THEN <<>>
    ELSE LET fm == FileNameMatch(lines[1])
         IN  IF ~fm.found THEN <<>>
             ELSE LET matches == PieceMatches(fm.name, lines)
                  IN  IF Len(matches) > 0
                      THEN <<[file |-> fm.name, matches |-> matches]>>
                      ELSE <<>>

RECURSIVE CollectResults(_, _)
CollectResults(pieces, i) ==
    IF i > Len(pieces) THEN <<>>
    ELSE PieceResults(pieces[i]) \o CollectResults(pieces, i + 1)

\* if (stdout) { ... }: the results of a raw output.
Results(out) ==
    IF out = <<>> THEN <<>>
    ELSE CollectResults(FileMatches(out), 1)

\* A total that counts the entries, not their matches.
SumMatchesCountsFiles(results, i) == Len(results)

RECURSIVE SumMatches(_, _)
SumMatches(results, i) ==
    IF i > Len(results) THEN 0
    ELSE Len(results[i].matches) + SumMatches(results, i + 1)

\* The report of lines 218 to 229, without the echoed query parameters.
SearchReport(out) ==
    LET results == Results(out)
    IN  [results |-> results,
         total_matches |-> SumMatches(results, 1),
         total_files |-> Len(results)]


(***************************************************************************)
(* The search tool as a state machine: git grep runs, its output is        *)
(* structured, the report is returned.                                     *)
(***************************************************************************)
VARIABLES
    grepOut,   \* the lines git grep produced, before printing
    stdout,    \* the raw output: the printed lines
    report,    \* the structured report
    sphase     \* "idle", "exec" (output captured) or "done" (report built)

searchVars == <<grepOut, stdout, report, sphase>>

NoReport == [results |-> <<>>, total_matches |-> 0, total_files |-> 0]

FileA == <<"a", "b">>
FileB == <<"c", "d">>
FileC == <<"e">>
FileD == <<" ", "f">>

\* "Binary file c:d matches", the notice git grep prints for a binary file,
\* here one whose name holds a colon.
BinaryNotice ==
    <<"B", "i", "n", "a", "r", "y", " ", "f", "i", "l", "e", " ", "c", ":", "d",
      " ", "m", "a", "t", "c", "h", "e", "s">>

\* The lines git grep may print in the model.
GrepLines ==
    { GrepLine("match", FileA, 7, <<"x">>),
      GrepLine("match", FileA, 12, <<"k", ":", "v">>),
      GrepLine("match", FileA, 9, <<"y">>),
      GrepLine("match", FileB, 7, <<"x">>),
      GrepLine("match", FileC, 7, <<"x">>),
      GrepLine("match", FileD, 9, <<"y">>),
      GrepLine("context", FileA, 6, <<"x">>),
      GrepLine("context", FileA, 8, <<>>),
      GrepLine("context", FileA, 13, <<"k", ":", "v">>),
      GrepLine("context", FileA, 10, <<"p", "-", "3", "-", "q">>),
      GrepLine("context", FileB, 6, <<"x">>),
      GrepLine("context", FileB, 8, <<"x">>),
      GrepLine("other", <<>>, 0, <<"-", "-">>),
      GrepLine("other", <<>>, 0, <<>>),
      GrepLine("other", <<>>, 0, BinaryNotice) }

RECURSIVE SeqsUpTo(_, _)
SeqsUpTo(S, n) ==
    IF n = 0 THEN {<<>>}
    ELSE LET shorter == SeqsUpTo(S, n - 1)
         IN  shorter \cup {Append(q, x) : q \in {r \in shorter : Len(r) = n - 1}, x \in S}

\* git grep prints the lines of a file together, in ascending line order.
GrepOrdered(ls) ==
    \A i, j \in 1..Len(ls) :
        (i < j /\ ls[i].kind # "other" /\ ls[j].kind # "other"
               /\ ls[i].file = ls[j].file) =>
            /\ ls[i].num < ls[j].num
            /\ \A k \in i..j : ls[k].kind # "other" => ls[k].file = ls[i].file

GrepOutputs == {ls \in SeqsUpTo(GrepLines, MaxLines) : GrepOrdered(ls)}

\* const { stdout, stderr } = await execPromise(grepCommand);
ExecGrep(ls) ==
    /\ sphase = "idle"
    /\ grepOut' = ls
    /\ stdout' = PrintedAll(ls)
    /\ sphase' = "exec"
    /\ UNCHANGED report

\* Process the results (lines 138 to 229).
Structure ==
    /\ sphase = "exec"
    /\ report' = SearchReport(stdout)
    /\ sphase' = "done"
    /\ UNCHANGED <<grepOut, stdout>>

\* return { content: [...] }
Respond ==
    /\ sphase = "done"
    /\ sphase' = "idle"
    /\ grepOut' = <<>>
    /\ stdout' = <<>>
    /\ report' = NoReport

SearchIdle ==
    /\ grepOut = <<>>
    /\ stdout = <<>>
    /\ report = NoReport
    /\ sphase = "idle"

(***************************************************************************)
(* The tool handlers and the dispatcher that calls them.  A response is    *)
(* { content: [{ type: "text", text }], isError? }: shape says whether     *)
(* text is a JSON object or plain text, keys are the top-level keys of     *)
(* that object, entries is the mapping of the file-read tool, msg the      *)
(* error message.                                                          *)
(***************************************************************************)
\* Longest file_paths list.
MaxPaths == 2

\* The invocation of cloneRepo a handler makes.
HandlerProc == "p1"

Handlers == {"handleGitDirectoryStructure", "handleGitReadFiles",
             "handleGitSearchCode", "handleGitLFSFetch", "handleGitMergeBranch"}

\* The handlers that begin with cloneRepo(repo_url).
CloneHandlers == {"handleGitDirectoryStructure", "handleGitReadFiles",
                  "handleGitSearchCode"}

\* this.handlersMap, as the constructor builds it (the part modelled here).
HandlersMap ==
    [n \in {"git_directory_structure", "git_read_files", "git_search_code",
            "git_merge_branch"} |->
        CASE n = "git_directory_structure" -> "handleGitDirectoryStructure"
          [] n = "git_read_files"          -> "handleGitReadFiles"
          [] n = "git_search_code"         -> "handleGitSearchCode"
          [] n = "git_merge_branch"        -> "handleGitMergeBranch"]

\* Tool names a request may carry.
ToolNames == DOMAIN HandlersMap \cup {"git_lfs_fetch", "git_unknown"}

\* Paths of the working copy a request may name: a readable file, a path
\* that does not exist, a directory (readFile throws EISDIR).
Paths == {"file", "nofile", "dir"}

\* The arguments of a call.  given: an argument object was passed; repo: the
\* repo_url or repo_path field ("" when missing); fields: the other required
\* fields are there (file_paths, pattern, source_branch); paths: file_paths.
Args(given, repo, fields, paths) ==
    [given |-> given, repo |-> repo, fields |-> fields, paths |-> paths]

Undefined == Args(FALSE, "", FALSE, <<>>)

ArgValues ==
    {Undefined}
    \cup {Args(TRUE, r, FALSE, <<>>) : r \in {"", "u"}}
    \cup {Args(TRUE, r, TRUE, ps) : r \in {"", "u"}, ps \in SeqsUpTo(Paths, MaxPaths)}

Response(isError, shape, keys, entries, msg) ==
    [isError |-> isError, shape |-> shape, keys |-> keys,
     entries |-> entries, msg |-> msg]

NoResponse == Response(FALSE, "none", {}, <<>>, <<>>)

\* { content: [{ type: "text", text: JSON.stringify({ error: ... }) }],
\*   isError: true }
Failure(keys, msg) == Response(TRUE, "json", keys, <<>>, msg)

\* { content: [{ type: "text", text: JSON.stringify(payload) }] }
Success(keys, entries) == Response(FALSE, "json", keys, entries, <<>>)

\* What a handler call ended with: a returned response or a thrown error.
NoOutcome == [kind |-> "none", resp |-> NoResponse, err |-> <<>>]
ReturnedResponse(r) == [kind |-> "returned", resp |-> r, err |-> <<>>]
Thrown(e) == [kind |-> "threw", resp |-> NoResponse, err |-> e]

VARIABLES
    tool,     \* the handler that was called ("" when none)
    args,     \* its argument
    caller,   \* "dispatch" (the CallTool request handler), "direct" or "none"
    hpc,      \* position: idle, enter, acquire, body, exit, settled
    hres,     \* what the handler call ended with
    wire      \* what the protocol layer got: none, result, or an McpError code

handlerVars == <<tool, args, caller, hpc, hres, wire>>

HandlerIdle ==
    /\ tool = ""
    /\ args = Undefined
    /\ caller = "none"
    /\ hpc = "idle"
    /\ hres = NoOutcome
    /\ wire = "none"

\* The CallTool request handler up to "await handler(args)": an unknown name
\* is answered with McpError MethodNotFound.
CallTool(name, a) ==
    /\ hpc = "idle"
    /\ args' = a
    /\ caller' = "dispatch"
    /\ hres' = NoOutcome
    /\ IF name \in DOMAIN HandlersMap
          THEN /\ tool' = HandlersMap[name]
               /\ hpc' = "enter"
               /\ wire' = "none"
          ELSE /\ tool' = ""
               /\ hpc' = "settled"
               /\ wire' = "MethodNotFound"

\* An exported handler is called by other code than the dispatcher.
CallDirect(h, a) ==
    /\ hpc = "idle"
    /\ tool' = h
    /\ args' = a
    /\ caller' = "direct"
    /\ hpc' = "enter"
    /\ hres' = NoOutcome
    /\ wire' = "none"

\* The messages of the outer catch blocks.
CatchPrefix(h) ==
    CASE h = "handleGitDirectoryStructure" -> "Error: "
      [] h = "handleGitReadFiles"          -> "Failed to process repository: "
      [] h = "handleGitSearchCode"         -> "Failed to search repository: "
      [] h = "handleGitLFSFetch"           -> "Failed to fetch LFS objects: "
      [] h = "handleGitMergeBranch"        -> "Failed to merge branches: "

\* The response the outer catch block of handler h builds for an error.
Caught(h, cause) ==
    CASE h = "handleGitDirectoryStructure" ->
             Response(TRUE, "text", {}, <<>>, <<CatchPrefix(h)>> \o cause)
      [] h = "handleGitMergeBranch" ->
             Failure({"error", "conflicts"}, <<CatchPrefix(h)>> \o cause)
      [] OTHER ->
             Failure({"error"}, <<CatchPrefix(h)>> \o cause)

\* The handler is entered: its parameter is destructured, which throws a
\* TypeError for undefined before the try block is reached.  Inside the try
\* block the first three handlers call cloneRepo(repo_url), which throws at
\* once when repo_url is no string (hash.update).
Enter ==
    /\ hpc = "enter"
    /\ IF ~args.given
          THEN /\ hres' = Thrown(<<"TypeError: Cannot destructure property">>)
               /\ hpc' = "exit"
               /\ UNCHANGED cacheVars
          ELSE IF tool \in CloneHandlers
               THEN IF args.repo = ""
                    THEN /\ hres' = ReturnedResponse(
                                Caught(tool, <<"TypeError: The \"data\" argument">>))
                         /\ hpc' = "exit"
                         /\ UNCHANGED cacheVars
                    ELSE /\ Start(HandlerProc, args.repo)
                         /\ hpc' = "acquire"
                         /\ UNCHANGED hres
               ELSE /\ hpc' = "body"
                    /\ UNCHANGED <<hres, cacheVars>>
    /\ UNCHANGED <<tool, args, caller, wire>>

\* cloneRepo has returned or thrown; a throw lands in the outer catch block.
Acquired ==
    /\ hpc = "acquire"
    /\ pc[HandlerProc] = "done"
    /\ Return(HandlerProc)
    /\ IF res[HandlerProc].ok
          THEN /\ hpc' = "body"
               /\ UNCHANGED hres
          ELSE /\ hpc' = "exit"
               /\ hres' = ReturnedResponse(Caught(tool, res[HandlerProc].msg))
    /\ UNCHANGED <<tool, args, caller, wire>>

\* const tree = await getDirectoryTree(repoPath); the tree is returned as
\* plain text.  readdir or stat may fail.
DirectoryTree ==
    /\ hpc = "body"
    /\ tool = "handleGitDirectoryStructure"
    /\ \/ hres' = ReturnedResponse(Response(FALSE, "text", {}, <<>>, <<>>))
       \/ hres' = ReturnedResponse(Caught(tool, <<"EACCES">>))
    /\ hpc' = "exit"
    /\ UNCHANGED <<tool, args, caller, wire, cacheVars>>

\* The inner try block of handleGitReadFiles for one path.
ReadOne(path) ==
    CASE path = "file"   -> "content"
      [] path = "nofile" -> "Error: File not found"
      [] path = "dir"    -> "Error reading file: EISDIR"

\* A loop without the inner try block: the first path that cannot be read
\* fails the whole call.
ReadFilesStopsAtError ==
    /\ hpc = "body"
    /\ tool = "handleGitReadFiles"
    /\ IF ~args.fields
          THEN hres' = ReturnedResponse(
                   Caught(tool, <<"TypeError: file_paths is not iterable">>))
          ELSE LET requested == {args.paths[i] : i \in 1..Len(args.paths)}
               IN  IF requested \subseteq {"file"}
                   THEN hres' = ReturnedResponse(
                            Success(requested, [p \in requested |-> ReadOne(p)]))
                   ELSE hres' = ReturnedResponse(Caught(tool, <<"ENOENT">>))
    /\ hpc' = "exit"
    /\ UNCHANGED <<tool, args, caller, wire, cacheVars>>

\* for (const filePath of file_paths) { ... }: results is an object keyed by
\* path.  A file_paths that is undefined is not iterable.
ReadFiles ==
    /\ hpc = "body"
    /\ tool = "handleGitReadFiles"
    /\ IF ~args.fields
          THEN hres' = ReturnedResponse(
                   Caught(tool, <<"TypeError: file_paths is not iterable">>))
          ELSE LET requested == {args.paths[i] : i \in 1..Len(args.paths)}
               IN  hres' = ReturnedResponse(
                       Success(requested, [p \in requested |-> ReadOne(p)]))
    /\ hpc' = "exit"
    /\ UNCHANGED <<tool, args, caller, wire, cacheVars>>

\* The grep command is built (pattern.replace throws for undefined) and run;
\* git grep fails when nothing matches.
SearchCode ==
    /\ hpc = "body"
    /\ tool = "handleGitSearchCode"
    /\ IF ~args.fields
          THEN hres' = ReturnedResponse(
                   Caught(tool, <<"TypeError: Cannot read properties of undefined">>))
          ELSE \/ hres' = ReturnedResponse(
                      Success({"pattern", "case_sensitive", "context_lines",
                               "file_patterns", "results", "total_matches",
                               "total_files"}, <<>>))
               \/ hres' = ReturnedResponse(Caught(tool, <<"Command failed">>))
    /\ hpc' = "exit"
    /\ UNCHANGED <<tool, args, caller, wire, cacheVars>>

\* handleGitLFSFetch: the command runs; output on stderr alone is reported
\* as an error; a git without lfs has its own message.
LFSFetch ==
    /\ hpc = "body"
    /\ tool = "handleGitLFSFetch"
    /\ \/ /\ args.repo # ""
          /\ hres' = ReturnedResponse(
                 Success({"success", "message", "output", "dry_run"}, <<>>))
       \/ /\ args.repo # ""
          /\ hres' = ReturnedResponse(Failure({"error"}, <<"stderr">>))
       \/ hres' = ReturnedResponse(
              Failure({"error"}, <<"Git LFS is not installed on the system">>))
       \/ hres' = ReturnedResponse(Caught(tool, <<"Command failed">>))
    /\ hpc' = "exit"
    /\ UNCHANGED <<tool, args, caller, wire, cacheVars>>

\* handleGitMergeBranch: checkout and merge succeed, or one of them throws.
MergeBranch ==
    /\ hpc = "body"
    /\ tool = "handleGitMergeBranch"
    /\ \/ /\ args.fields
          /\ hres' = ReturnedResponse(Success({"success", "result", "message"}, <<>>))
       \/ hres' = ReturnedResponse(Caught(tool, <<"CONFLICTS">>))
    /\ hpc' = "exit"
    /\ UNCHANGED <<tool, args, caller, wire, cacheVars>>

\* The caller gets the outcome.  The dispatcher returns the handler's result
\* and rethrows any other error as McpError InternalError.
Settle ==
    /\ hpc = "exit"
    /\ hpc' = "settled"
    /\ wire' = IF caller # "dispatch" THEN "none"
               ELSE IF hres.kind = "returned" THEN "result"
               ELSE "InternalError"
    /\ UNCHANGED <<tool, args, caller, hres>>

\* The next request may come.
HandlerReset ==
    /\ hpc = "settled"
    /\ tool' = ""
    /\ args' = Undefined
    /\ caller' = "none"
    /\ hpc' = "idle"
    /\ hres' = NoOutcome
    /\ wire' = "none"

(***************************************************************************)
(* getDirectoryTree: the listing of a working copy.  A directory is a set  *)
(* of entries; a name is a sequence of characters; the output is the       *)
(* sequence of its lines, a line being prefix + connector + name.          *)
(***************************************************************************)
Entry(name, isDir, children) ==
    [name |-> name, isDir |-> isDir, children |-> children]

\* UTF-16 code units of the characters of the names: Array.prototype.sort
\* without a comparator orders strings by them.
CharCode(c) ==
    CASE c = "." -> 46
      [] c = "a" -> 97
      [] c = "e" -> 101
      [] c = "g" -> 103
      [] c = "i" -> 105
      [] c = "k" -> 107
      [] c = "t" -> 116

\* a < b as strings.
RECURSIVE NameLess(_, _)
NameLess(a, b) ==
    IF b = <<>> THEN FALSE
    ELSE IF a = <<>> THEN TRUE
    ELSE IF a[1] # b[1] THEN CharCode(a[1]) < CharCode(b[1])
    ELSE NameLess(Tail(a), Tail(b))

\* entries.sort()
RECURSIVE SortNames(_)
SortNames(S) ==
    IF S = {} THEN <<>>
    ELSE LET least == CHOOSE x \in S : \A y \in S \ {x} : NameLess(x, y)
         IN  <<least>> \o SortNames(S \ {least})

\* A test that skips the entry named ".git" only.
StartsWithGitExact(name) == name = <<".", "g", "i", "t">>

\* entry.startsWith(".git")
StartsWithGit(name) == Len(name) >= 4 /\ SubSeq(name, 1, 4) = <<".", "g", "i", "t">>

\* await fs.readdir(dirPath)
Readdir(dir) == {e.name : e \in dir}

\* The entry of dir that has the name.
EntryOf(dir, name) == CHOOSE e \in dir : e.name = name

TreeLine(prefix, connector, name) ==
    [prefix |-> prefix, connector |-> connector, name |-> name]

\* The loop of lines 60 to 75 from index i on; the recursion of line 73.
\* "+-- ", "|-- " and "|   " stand for the box-drawing connectors.
RECURSIVE TreeFrom(_, _, _, _)
TreeFrom(dir, entries, prefix, i) ==
    IF i > Len(entries) THEN <<>>
    ELSE IF StartsWithGit(entries[i]) THEN TreeFrom(dir, entries, prefix, i + 1)
    ELSE LET isLast == i = Len(entries)
             currentPrefix == IF isLast THEN "+-- " ELSE "|-- "
             nextPrefix == IF isLast THEN "    " ELSE "|   "
             e == EntryOf(dir, entries[i])
             below == IF e.isDir
                      THEN TreeFrom(e.children, SortNames(Readdir(e.children)),
                                    Append(prefix, nextPrefix), 1)
                      ELSE <<>>
         IN  <<TreeLine(prefix, currentPrefix, entries[i])>> \o below
             \o TreeFrom(dir, entries, prefix, i + 1)

GetDirectoryTree(dir, prefix) ==
    TreeFrom(dir, SortNames(Readdir(dir)), prefix, 1)

\* Names of the model: ".e" sorts before ".git", "a" and "k" after it.
NameE == <<".", "e">>
NameGit == <<".", "g", "i", "t">>
NameGitk == <<".", "g", "i", "t", "k">>
NameA == <<"a">>
NameK == <<"k">>

\* The directories below the root: files only.
LeafNames == {NameE, NameGit, NameA}
LeafDirs == {{Entry(n, FALSE, {}) : n \in S} : S \in SUBSET LeafNames}

\* What may stand in the root under a name: a file or a directory.
NodesOf(n) ==
    {Entry(n, FALSE, {})} \cup {Entry(n, TRUE, d) : d \in LeafDirs}

\* Nothing, or one entry of those given.
OneOrNone(nodes) == {{}} \cup {{e} : e \in nodes}

\* The working copies: ".git" is a directory, ".gitk" and "k" are files.
RootDirs ==
    {e \cup g \cup a \cup gk \cup k :
        e \in OneOrNone(NodesOf(NameE)),
        g \in OneOrNone({Entry(NameGit, TRUE, d) : d \in LeafDirs}),
        a \in OneOrNone(NodesOf(NameA)),
        gk \in OneOrNone({Entry(NameGitk, FALSE, {})}),
        k \in OneOrNone({Entry(NameK, FALSE, {})})}

VARIABLES
    tree,      \* the working copy that is listed
    listing,   \* the output of getDirectoryTree
    tphase     \* "idle", "read" (a working copy is there) or "done"

treeVars == <<tree, listing, tphase>>

TreeIdle ==
    /\ tree = {}
    /\ listing = <<>>
    /\ tphase = "idle"

\* The working copy cloneRepo returned.
OpenTree(d) ==
    /\ tphase = "idle"
    /\ tree' = d
    /\ tphase' = "read"
    /\ UNCHANGED listing

\* const tree = await getDirectoryTree(repoPath);
BuildTree ==
    /\ tphase = "read"
    /\ listing' = GetDirectoryTree(tree, <<>>)
    /\ tphase' = "done"
    /\ UNCHANGED tree

\* return { content: [{ type: "text", text: tree }] }
TreeReturn ==
    /\ tphase = "done"
    /\ tree' = {}
    /\ listing' = <<>>
    /\ tphase' = "idle"

(***************************************************************************)
(* The registry of the server: this.handlersMap and this.toolsList, with   *)
(* registerHandler, unregisterHandler, the tool-listing request and the    *)
(* lookup of the CallTool request.  A handler is named by its function.    *)
(***************************************************************************)
\* this.toolsList as the constructor builds it (the tools modelled here).
InitialToolsList ==
    <<"git_directory_structure", "git_read_files", "git_merge_branch",
      "git_search_code">>

\* this.handlerAliases (the aliases of the tools modelled here).
HandlerAliases ==
    [a \in {"git_ls", "git_show", "git_grep"} |->
        CASE a = "git_ls"   -> "git_directory_structure"
          [] a = "git_show" -> "git_read_files"
          [] a = "git_grep" -> "git_search_code"]

\* The map after the constructor has copied the handler of each alias's
\* target under the alias (lines 1007 to 1011).
InitialHandlersMap ==
    [n \in DOMAIN HandlersMap \cup DOMAIN HandlerAliases |->
        IF n \in DOMAIN HandlersMap THEN HandlersMap[n]
        ELSE HandlersMap[HandlerAliases[n]]]

\* Names and functions handed to registerHandler and unregisterHandler.
RegNames == {"git_read_files", "git_show", "git_lfs_fetch"}
RegHandlers == {"handleGitLFSFetch", "customHandler"}

\* Names a CallTool request may carry in this section.
CallNames == DOMAIN InitialHandlersMap \cup {"git_lfs_fetch", "git_unknown"}

VARIABLES
    handlersMap,  \* tool name -> handler function
    toolsList,    \* the names of the tools the listing returns, in order
    invoked       \* the last lookup: [name, handler] or MethodNotFound

registryVars == <<handlersMap, toolsList, invoked>>

NoCall == [name |-> "", handler |-> ""]

RegistryInit ==
    /\ handlersMap = InitialHandlersMap
    /\ toolsList = InitialToolsList
    /\ invoked = NoCall

\* this.handlersMap[name] with a handler there.
HasHandler(map, name) == name \in DOMAIN map

\* registerHandler(name, handler, toolInfo); withInfo: toolInfo is an object.
RegisterHandler(name, handler, withInfo) ==
    /\ handlersMap' = [n \in DOMAIN handlersMap \cup {name} |->
                          IF n = name THEN handler ELSE handlersMap[n]]
    /\ toolsList' =
          IF withInfo /\ ~\E i \in 1..Len(toolsList) : toolsList[i] = name
          THEN Append(toolsList, name)
          ELSE toolsList
    /\ UNCHANGED invoked

\* unregisterHandler(name): delete this.handlersMap[name]; a name without
\* handler returns false.
UnregisterHandler(name) ==
    /\ HasHandler(handlersMap, name)
    /\ handlersMap' = [n \in DOMAIN handlersMap \ {name} |-> handlersMap[n]]
    /\ UNCHANGED <<toolsList, invoked>>

\* The CallTool request for a name other than git_batch: the handler found
\* under the name is called, a name without handler gets MethodNotFound.
Lookup(name) ==
    /\ invoked' = [name |-> name,
                   handler |-> IF HasHandler(handlersMap, name)
                               THEN handlersMap[name] ELSE "MethodNotFound"]
    /\ UNCHANGED <<handlersMap, toolsList>>

\* The tool-listing request: { tools: this.toolsList }.
ListTools == {toolsList[i] : i \in 1..Len(toolsList)}

\* ---------------------------------------------------------------------
\* git_batch: executeSequence and the git_batch branch of the CallTool
\* handler (server.js).
\* ---------------------------------------------------------------------

\* The longest operations array of a git_batch request.
MaxOps == 2

\* One element of args.operations: { name, arguments }; hasArgs is FALSE when
\* the element has no arguments member.
BatchNames == {"git_read_files", "git_show", "git_unknown"}
BatchOp == [name : BatchNames, hasArgs : BOOLEAN]

\* args.operations of a request: an array of operations, or a value that is
\* no array.
BatchInputs ==
    {[isArray |-> TRUE, ops |-> s] :
        s \in UNION {[1..n -> BatchOp] : n \in 0..MaxOps}}
    \cup {[isArray |-> FALSE, ops |-> <<>>]}

\* What a handler returns to executeSequence.
BatchResponses == {"success", "failure"}

VARIABLES
    batch,     \* args.operations of the running git_batch request
    bpc,       \* position of the request: idle, loop, running, done
    bi,        \* index of the operation the for loop stands at
    batchResults, \* the results array of executeSequence
    blog,      \* handlers started and returned, in order of time
    bout       \* what the request gave: [kind, results]

batchVars == <<batch, bpc, bi, batchResults, blog, bout>>

NoBatchOutcome == [kind |-> "none", results |-> <<>>]

BatchIdle ==
    /\ batch = <<>>
    /\ bpc = "idle"
    /\ bi = 0
    /\ batchResults = <<>>
    /\ blog = <<>>
    /\ bout = NoBatchOutcome

\* An error thrown out of the git_batch branch: the branch stands before the
\* try block of the CallTool handler, so the error leaves it unwrapped and
\* the results array is lost.
BatchThrow(kind) ==
    /\ bout' = [kind |-> kind, results |-> <<>>]
    /\ bpc' = "done"

\* name === "git_batch": a value that is no array is refused, an array is
\* handed to executeSequence.
BatchCall(operations) ==
    /\ bpc = "idle"
    /\ batch' = operations.ops
    /\ batchResults' = <<>>
    /\ blog' = <<>>
    /\ bi' = 1
    /\ IF ~operations.isArray
       THEN BatchThrow("InvalidParams")
       ELSE bpc' = "loop" /\ bout' = NoBatchOutcome
    /\ UNCHANGED registryVars

\* One turn of for (const op of operations): the loop ends and results is
\* returned, or the name has no handler and MethodNotFound is thrown, or the
\* handler is called with the operation's arguments.
BatchLoop ==
    /\ bpc = "loop"
    /\ IF bi > Len(batch)
       THEN /\ bout' = [kind |-> "results", results |-> batchResults]
            /\ bpc' = "done"
            /\ UNCHANGED blog
       ELSE IF ~HasHandler(handlersMap, batch[bi].name)
       THEN /\ BatchThrow("MethodNotFound")
            /\ UNCHANGED blog
       ELSE /\ blog' = Append(blog, [ev |-> "start", op |-> bi,
                                     handler |-> handlersMap[batch[bi].name]])
            /\ bpc' = "running"
            /\ UNCHANGED bout
    /\ UNCHANGED <<batch, bi, batchResults, registryVars>>

\* await handler(args) settles. With arguments the handler returns a
\* response, success or failure, which is pushed; called with undefined it
\* rejects while destructuring its parameter and the rejection leaves
\* executeSequence.
BatchAwait(resp) ==
    /\ bpc = "running"
    /\ IF batch[bi].hasArgs
       THEN /\ batchResults' = Append(batchResults, resp)
            /\ blog' = Append(blog, [ev |-> "end", op |-> bi,
                                     handler |-> handlersMap[batch[bi].name]])
            /\ bi' = bi + 1
            /\ bpc' = "loop"
            /\ UNCHANGED bout
       ELSE /\ BatchThrow("TypeError")
            /\ UNCHANGED <<batchResults, blog, bi>>
    /\ UNCHANGED <<batch, registryVars>>

\* The request is over; the next one may come.
BatchReset ==
    /\ bpc = "done"
    /\ bpc' = "idle"
    /\ UNCHANGED <<batch, bi, batchResults, blog, bout, registryVars>>

\* ---------------------------------------------------------------------
\* handleGitDeleteBranch (branch-operations.js).
\* ---------------------------------------------------------------------

BranchNames == {"main", "dev", "gone"}

\* The repository at repo_path: no repository at all, or its local branches
\* and the one checked out ("" with a detached HEAD).
NoRepo == [isRepo |-> FALSE, branches |-> {}, current |-> ""]
Repos ==
    {NoRepo} \cup
    {[isRepo |-> TRUE, branches |-> b, current |-> c] :
        b \in SUBSET {"main", "dev"} \ {{}}, c \in {"main", "dev", ""}}

ValidRepo(r) == r.isRepo => r.current \in r.branches \cup {""}

VARIABLES
    repo,      \* the repository at repo_path
    dcall,     \* the arguments of the running call: [branch_name, force]
    dpc,       \* position of the call: idle, listed, done
    gitCmds,   \* the git commands of the call that change the repository
    dres       \* the response: [isError, error]

deleteVars == <<repo, dcall, dpc, gitCmds, dres>>

NoDeleteCall == [branch_name |-> "", force |-> FALSE]
NoDeleteResponse == [isError |-> FALSE, error |-> ""]

DeleteIdle ==
    /\ repo = NoRepo
    /\ dcall = NoDeleteCall
    /\ dpc = "idle"
    /\ gitCmds = <<>>
    /\ dres = NoDeleteResponse

DeleteReturn(isError, error) ==
    /\ dres' = [isError |-> isError, error |-> error]
    /\ dpc' = "done"

\* A check that lets a forced deletion of the checked-out branch through.
IsCurrentBranchUnlessForced(current, branch_name, force) ==
    current = branch_name /\ ~force

\* currentBranch.current === branch_name
IsCurrentBranch(current, branch_name, force) == current = branch_name

\* The handler up to the check: git.branch() throws outside a repository;
\* the checked-out branch is refused; any other name goes on to the
\* deletion.
DeleteBranchCheck(branch_name, force) ==
    /\ dpc = "idle"
    /\ dcall' = [branch_name |-> branch_name, force |-> force]
    /\ gitCmds' = <<>>
    /\ IF ~repo.isRepo
       THEN DeleteReturn(TRUE, "Failed to delete branch")
       ELSE IF IsCurrentBranch(repo.current, branch_name, force)
       THEN DeleteReturn(TRUE, "Cannot delete the currently checked out branch")
       ELSE dpc' = "listed" /\ dres' = NoDeleteResponse
    /\ UNCHANGED repo

\* git.deleteLocalBranch(branch_name, force): git branch -d or -D. git
\* refuses a name that is no branch, the branch checked out, and, without
\* force, a branch that is not fully merged.
DeleteLocalBranch(merged) ==
    /\ dpc = "listed"
    /\ gitCmds' = Append(gitCmds, [cmd |-> "branch-delete",
                                   branch |-> dcall.branch_name,
                                   force |-> dcall.force])
    /\ IF /\ dcall.branch_name \in repo.branches
          /\ dcall.branch_name # repo.current
          /\ dcall.force \/ merged
       THEN /\ repo' = [repo EXCEPT !.branches = @ \ {dcall.branch_name}]
            /\ DeleteReturn(FALSE, "")
       ELSE /\ UNCHANGED repo
            /\ DeleteReturn(TRUE, "Failed to delete branch")
    /\ UNCHANGED dcall

\* The call is over; the next call finds the repository as this one left it.
DeleteReset ==
    /\ dpc = "done"
    /\ dpc' = "idle"
    /\ UNCHANGED <<repo, dcall, gitCmds, dres>>

\* ---------------------------------------------------------------------
\* handleGitClean (other-operations.js).
\* ---------------------------------------------------------------------

\* A boolean argument of a call: given as true or false, or left out.
BoolArgs == {"true", "false", "undefined"}

\* The parameter default of the destructuring: d when the argument is left
\* out.
WithDefault(v, d) == IF v = "undefined" THEN d ELSE v = "true"

\* The untracked entries of the working tree: a file and a directory.
UntrackedFile == "junk.txt"
UntrackedDir == "build/"
Untracked == {UntrackedFile, UntrackedDir}

\* git clean with the given options: -n or --dry-run lists and removes
\* nothing; without them -f removes the untracked files, and with -d the
\* untracked directories too; without -f git refuses.
IsDryRun(options) == "-n" \in options \/ "--dry-run" \in options

GitCleanRefuses(options) == ~IsDryRun(options) /\ "-f" \notin options

GitClean(entries, options) ==
    IF IsDryRun(options) \/ "-f" \notin options THEN entries
    ELSE IF "-d" \in options THEN {}
    ELSE entries \ {UntrackedDir}

\* The options of the preview command.
PreviewOptions(directories) ==
    {"--dry-run"} \cup (IF directories THEN {"-d"} ELSE {})

\* cleanOptions as the handler builds it.
CleanOptions(directories, force, dry_run) ==
    (IF directories THEN {"-d"} ELSE {})
    \cup (IF force THEN {"-f"} ELSE {})
    \cup (IF dry_run THEN {"-n"} ELSE {})

VARIABLES
    untracked,  \* the untracked entries of the working tree
    ccall,      \* the arguments of the running call, defaults applied
    cpc,        \* position of the call: idle, preview, clean, done
    cleanCmds,  \* the option sets of the git clean commands of the call
    cres        \* the response: [isError, error]

cleanVars == <<untracked, ccall, cpc, cleanCmds, cres>>

NoCleanCall == [directories |-> FALSE, force |-> FALSE, dry_run |-> TRUE]
NoCleanResponse == [isError |-> FALSE, error |-> ""]

CleanIdle ==
    /\ untracked = Untracked
    /\ ccall = NoCleanCall
    /\ cpc = "idle"
    /\ cleanCmds = <<>>
    /\ cres = NoCleanResponse

CleanReturn(isError, error) ==
    /\ cres' = [isError |-> isError, error |-> error]
    /\ cpc' = "done"

\* A guard that lets every call through.
NeitherForceNorDryRunIgnored(force, dry_run) == FALSE

\* !force && !dry_run
NeitherForceNorDryRun(force, dry_run) == ~force /\ ~dry_run

\* The call up to the safety check.
CleanCheck(directories, force, dry_run) ==
    /\ cpc = "idle"
    /\ ccall' = [directories |-> WithDefault(directories, FALSE),
                 force |-> WithDefault(force, FALSE),
                 dry_run |-> WithDefault(dry_run, TRUE)]
    /\ cleanCmds' = <<>>
    /\ IF NeitherForceNorDryRun(ccall'.force, ccall'.dry_run)
       THEN CleanReturn(TRUE, "For safety, either force or dry_run must be true")
       ELSE cpc' = "preview" /\ cres' = NoCleanResponse
    /\ UNCHANGED untracked

\* await git.clean(["--dry-run", ...]): the preview; a failure of git goes
\* to the catch block.
CleanPreview(fails) ==
    /\ cpc = "preview"
    /\ cleanCmds' = Append(cleanCmds, PreviewOptions(ccall.directories))
    /\ untracked' = GitClean(untracked, PreviewOptions(ccall.directories))
    /\ IF fails
       THEN CleanReturn(TRUE, "Failed to clean repository")
       ELSE IF ccall.dry_run
       THEN CleanReturn(FALSE, "")
       ELSE cpc' = "clean" /\ UNCHANGED cres
    /\ UNCHANGED ccall

\* if (!dry_run) await git.clean(cleanOptions), then the success response;
\* a failure or a refusal of git goes to the catch block.
CleanRun(fails) ==
    /\ cpc = "clean"
    /\ LET options == CleanOptions(ccall.directories, ccall.force, ccall.dry_run)
       IN  /\ cleanCmds' = Append(cleanCmds, options)
           /\ IF fails \/ GitCleanRefuses(options)
              THEN /\ UNCHANGED untracked
                   /\ CleanReturn(TRUE, "Failed to clean repository")
              ELSE /\ untracked' = GitClean(untracked, options)
                   /\ CleanReturn(FALSE, "")
    /\ UNCHANGED ccall

\* The call is over; before the next one the working tree may get its
\* untracked entries again.
CleanReset(refill) ==
    /\ cpc = "done"
    /\ cpc' = "idle"
    /\ untracked' = IF refill THEN Untracked ELSE untracked
    /\ UNCHANGED <<ccall, cleanCmds, cres>>

\* ---------------------------------------------------------------------
\* handleGitAttributes, actions set and get (other-operations.js). Strings
\* are sequences of characters.
\* ---------------------------------------------------------------------

\* The most lines .gitattributes has before the first call.
MaxAttrLines == 2

\* The most successful set actions in a row of calls.
MaxSets == 2

RECURSIVE TrimStart(_)
TrimStart(s) ==
    IF s = <<>> THEN <<>>
    ELSE IF IsSpace(Head(s)) THEN TrimStart(Tail(s)) ELSE s

RECURSIVE TrimEnd(_)
TrimEnd(s) ==
    IF s = <<>> THEN <<>>
    ELSE IF IsSpace(s[Len(s)]) THEN TrimEnd(SubSeq(s, 1, Len(s) - 1)) ELSE s

\* line.trim()
Trim(s) == TrimEnd(TrimStart(s))

\* s.split(/\s+/): the pieces between the runs of whitespace; the empty
\* string gives one empty piece.
RECURSIVE SplitSpaces(_, _, _)
SplitSpaces(s, piece, inSpaces) ==
    IF s = <<>> THEN <<piece>>
    ELSE IF IsSpace(Head(s))
         THEN IF inSpaces THEN SplitSpaces(Tail(s), piece, TRUE)
              ELSE <<piece>> \o SplitSpaces(Tail(s), <<>>, TRUE)
         ELSE SplitSpaces(Tail(s), Append(piece, Head(s)), FALSE)

\* line.trim().split(/\s+/)
LineParts(line) == SplitSpaces(Trim(line), <<>>, FALSE)

\* parts.join(" ")
RECURSIVE JoinSpaces(_)
JoinSpaces(parts) ==
    IF parts = <<>> THEN <<>>
    ELSE IF Len(parts) = 1 THEN parts[1]
    ELSE parts[1] \o <<" ">> \o JoinSpaces(Tail(parts))

\* lines.findIndex(line => parts[0] === pattern); 0 when there is none.
PatternIndex(lines, pattern) ==
    IF \E i \in 1..Len(lines) : LineParts(lines[i])[1] = pattern
    THEN CHOOSE i \in 1..Len(lines) :
            /\ LineParts(lines[i])[1] = pattern
            /\ \A j \in 1..(i - 1) : LineParts(lines[j])[1] # pattern
    ELSE 0

\* parts.includes(attribute)
Includes(parts, attribute) == \E i \in 1..Len(parts) : parts[i] = attribute

\* The test of the set action for "attribute already exists".
AlreadyListed(parts, attribute) == Includes(parts, attribute)

\* setLines after the update of the set action.
SetLines(lines, pattern, attribute) ==
    LET i == PatternIndex(lines, pattern)
    IN  IF i # 0
        THEN IF AlreadyListed(LineParts(lines[i]), attribute)
             THEN lines
             ELSE [lines EXCEPT ![i] =
                      JoinSpaces(Append(LineParts(lines[i]), attribute))]
        ELSE Append(lines, pattern \o <<" ">> \o attribute)

\* lines.filter(Boolean)
NonEmptyLines(lines) == SelectSeq(lines, LAMBDA l : l # <<>>)

\* The file after writeFile(lines.filter(Boolean).join("\n") + "\n"), as
\* content.split("\n") reads it.
WrittenLines(lines) ==
    IF NonEmptyLines(lines) = <<>> THEN <<<<>>, <<>>>>
    ELSE Append(NonEmptyLines(lines), <<>>)

\* The attributes the get action returns: parts.slice(1) of every line whose
\* first part is the pattern, flattened.
RECURSIVE PatternAttributes(_, _)
PatternAttributes(lines, pattern) ==
    IF lines = <<>> THEN <<>>
    ELSE (IF LineParts(Head(lines))[1] = pattern
          THEN Tail(LineParts(Head(lines))) ELSE <<>>)
         \o PatternAttributes(Tail(lines), pattern)

\* The strings a call carries as pattern or attribute; the empty string is
\* the default of a parameter left out.
AttrStrings == {<<>>, <<"p">>, <<"a">>, <<"a", " ", "b">>}

\* The lines .gitattributes may hold before the first call.
AttrLines ==
    {<<>>, <<" ">>, <<"p">>, <<"p", " ", "a">>, <<"p", " ", "b">>,
     <<"a", " ", "b">>}

NoAttrFile == [exists |-> FALSE, lines |-> <<>>]
AttrFiles ==
    {NoAttrFile} \cup
    {[exists |-> TRUE, lines |-> l] :
        l \in UNION {[1..n -> AttrLines] : n \in 1..MaxAttrLines}}

VARIABLES
    attrFile,  \* .gitattributes: whether it exists and content.split("\n")
    alast,     \* the last successful set: [done, pattern, attribute, before]
    aout,      \* the last get: [done, pattern, attributes]
    ares,      \* the last response: none, error, set, get
    asets      \* the number of successful set actions so far

attrVars == <<attrFile, alast, aout, ares, asets>>

NoSet == [done |-> FALSE, pattern |-> <<>>, attribute |-> <<>>,
          before |-> NoAttrFile]
NoGet == [done |-> FALSE, pattern |-> <<>>, attributes |-> <<>>]

AttrIdle ==
    /\ attrFile = NoAttrFile
    /\ alast = NoSet
    /\ aout = NoGet
    /\ ares = "none"
    /\ asets = 0

\* action "set": an empty pattern or attribute and a failing filesystem call
\* give an error response and leave the file; otherwise a missing file is
\* created empty, the lines are updated and written back.
AttributesSet(pattern, attribute, fails) ==
    IF pattern = <<>> \/ attribute = <<>> \/ fails
    THEN ares' = "error" /\ UNCHANGED <<attrFile, alast, aout, asets>>
    ELSE LET lines == IF attrFile.exists THEN attrFile.lines ELSE <<<<>>>>
         IN  /\ asets < MaxSets
             /\ asets' = asets + 1
             /\ attrFile' = [exists |-> TRUE,
                             lines |-> WrittenLines(SetLines(lines, pattern,
                                                             attribute))]
             /\ alast' = [done |-> TRUE, pattern |-> pattern,
                          attribute |-> attribute, before |-> attrFile]
             /\ ares' = "set"
             /\ UNCHANGED aout

\* action "get": an empty pattern and a failing filesystem call give an
\* error response; a missing file and a pattern on no line give the empty
\* list.
AttributesGet(pattern, fails) ==
    IF pattern = <<>> \/ fails
    THEN ares' = "error" /\ UNCHANGED <<attrFile, alast, aout, asets>>
    ELSE /\ aout' = [done |-> TRUE, pattern |-> pattern,
                     attributes |-> IF attrFile.exists
                                    THEN PatternAttributes(attrFile.lines, pattern)
                                    ELSE <<>>]
         /\ ares' = "get"
         /\ UNCHANGED <<attrFile, alast, asets>>

\* The variables of the sections above.
auxVars == <<treeVars, registryVars, batchVars, deleteVars, cleanVars, attrVars>>

AuxIdle ==
    TreeIdle /\ RegistryInit /\ BatchIdle /\ DeleteIdle /\ CleanIdle /\ AttrIdle

\* No call of cloneRepo is running and the cache is empty.
CacheQuiet ==
    /\ fs = [k \in Keys |-> Absent]
    /\ upstream = [u \in URLs |-> 0]
    /\ pc = [p \in Procs |-> "idle"]
    /\ url = [p \in Procs |-> "u"]
    /\ ops = [p \in Procs |-> <<>>]
    /\ failed = [p \in Procs |-> {}]
    /\ pre = [p \in Procs |-> Absent]
    /\ res = [p \in Procs |-> NoResult]
    /\ prev = [url |-> "", res |-> NoResult]

vars == <<fs, upstream, pc, url, ops, failed, pre, res, prev,
          grepOut, stdout, report, sphase,
          tool, args, caller, hpc, hres, wire,
          tree, listing, tphase,
          handlersMap, toolsList, invoked,
          batch, bpc, bi, batchResults, blog, bout,
          repo, dcall, dpc, gitCmds, dres,
          untracked, ccall, cpc, cleanCmds, cres,
          attrFile, alast, aout, ares, asets>>

(***************************************************************************)
(* Specifications.  Spec: calls of cloneRepo, one at a time, on any        *)
(* initial cache.  SearchSpec: the search structurer on any raw output.    *)
(***************************************************************************)
Init == CacheInit /\ SearchIdle /\ HandlerIdle /\ AuxIdle

Next ==
    \/ \E p \in Procs, u \in URLs : SeqStart(p, u) /\ UNCHANGED <<searchVars, handlerVars, auxVars>>
    \/ \E p \in Procs : PathExists(p) /\ UNCHANGED <<searchVars, handlerVars, auxVars>>
    \/ \E p \in Procs : GetRemotes(p) /\ UNCHANGED <<searchVars, handlerVars, auxVars>>
    \/ \E p \in Procs : Pull(p) /\ UNCHANGED <<searchVars, handlerVars, auxVars>>
    \/ \E p \in Procs : Remove(p) /\ UNCHANGED <<searchVars, handlerVars, auxVars>>
    \/ \E p \in Procs : RemoveDone(p) /\ UNCHANGED <<searchVars, handlerVars, auxVars>>
    \/ \E p \in Procs : EnsureDir(p) /\ UNCHANGED <<searchVars, handlerVars, auxVars>>
    \/ \E p \in Procs : Clone(p) /\ UNCHANGED <<searchVars, handlerVars, auxVars>>
    \/ \E p \in Procs : CloneDone(p) /\ UNCHANGED <<searchVars, handlerVars, auxVars>>
    \/ \E p \in Procs : Cleanup(p) /\ UNCHANGED <<searchVars, handlerVars, auxVars>>
    \/ \E p \in Procs : CleanupDone(p) /\ UNCHANGED <<searchVars, handlerVars, auxVars>>
    \/ \E p \in Procs : Return(p) /\ UNCHANGED <<searchVars, handlerVars, auxVars>>
    \/ \E u \in URLs : Push(u) /\ UNCHANGED <<searchVars, handlerVars, auxVars>>

Spec == Init /\ [][Next]_vars

\* The I/O operations of a call return: a call that has a step to take takes
\* it in the end.
CallStep(p) ==
    /\ \/ PathExists(p) \/ GetRemotes(p) \/ Pull(p)
       \/ Remove(p) \/ RemoveDone(p) \/ EnsureDir(p)
       \/ Clone(p) \/ CloneDone(p) \/ Cleanup(p) \/ CleanupDone(p)
    /\ UNCHANGED <<searchVars, handlerVars, auxVars>>

\* FairSpec: the calls of Spec with upstream repositories that stand still.
FairNext ==
    \/ \E p \in Procs, u \in URLs : SeqStart(p, u) /\ UNCHANGED <<searchVars, handlerVars, auxVars>>
    \/ \E p \in Procs : CallStep(p)
    \/ \E p \in Procs : Return(p) /\ UNCHANGED <<searchVars, handlerVars, auxVars>>

FairSpec == Init /\ [][FairNext]_vars /\ \A p \in Procs : WF_vars(CallStep(p))

SearchInit ==
    /\ fs = [k \in Keys |-> Absent]
    /\ upstream = [u \in URLs |-> 0]
    /\ pc = [p \in Procs |-> "idle"]
    /\ url = [p \in Procs |-> "u"]
    /\ ops = [p \in Procs |-> <<>>]
    /\ failed = [p \in Procs |-> {}]
    /\ pre = [p \in Procs |-> Absent]
    /\ res = [p \in Procs |-> NoResult]
    /\ prev = [url |-> "", res |-> NoResult]
    /\ SearchIdle
    /\ HandlerIdle
    /\ AuxIdle

SearchNext ==
    \/ \E ls \in GrepOutputs : ExecGrep(ls) /\ UNCHANGED <<cacheVars, handlerVars, auxVars>>
    \/ Structure /\ UNCHANGED <<cacheVars, handlerVars, auxVars>>
    \/ Respond /\ UNCHANGED <<cacheVars, handlerVars, auxVars>>

SearchSpec == SearchInit /\ [][SearchNext]_vars

\* HandlerSpec: calls of the tool handlers, through the dispatcher or
\* directly, one at a time, on any initial content of the slot of "u".
HandlerInit ==
    /\ fs \in {f \in [Keys -> InitContents] : f[RepoHash("w")] = Absent}
    /\ upstream = [u \in URLs |-> 0]
    /\ pc = [p \in Procs |-> "idle"]
    /\ url = [p \in Procs |-> "u"]
    /\ ops = [p \in Procs |-> <<>>]
    /\ failed = [p \in Procs |-> {}]
    /\ pre = [p \in Procs |-> Absent]
    /\ res = [p \in Procs |-> NoResult]
    /\ prev = [url |-> "", res |-> NoResult]
    /\ SearchIdle
    /\ HandlerIdle
    /\ AuxIdle

\* A step of the cloneRepo call the handler is waiting for.
AcquireStep(A) == hpc = "acquire" /\ A /\ UNCHANGED <<searchVars, handlerVars, auxVars>>

HandlerNext ==
    \/ \E n \in ToolNames, a \in ArgValues : CallTool(n, a) /\ UNCHANGED <<cacheVars, searchVars, auxVars>>
    \/ \E h \in Handlers, a \in ArgValues : CallDirect(h, a) /\ UNCHANGED <<cacheVars, searchVars, auxVars>>
    \/ Enter /\ UNCHANGED <<searchVars, auxVars>>
    \/ AcquireStep(PathExists(HandlerProc))
    \/ AcquireStep(GetRemotes(HandlerProc))
    \/ AcquireStep(Pull(HandlerProc))
    \/ AcquireStep(Remove(HandlerProc))
    \/ AcquireStep(RemoveDone(HandlerProc))
    \/ AcquireStep(EnsureDir(HandlerProc))
    \/ AcquireStep(Clone(HandlerProc))
    \/ AcquireStep(CloneDone(HandlerProc))
    \/ AcquireStep(Cleanup(HandlerProc))
    \/ AcquireStep(CleanupDone(HandlerProc))
    \/ Acquired /\ UNCHANGED <<searchVars, auxVars>>
    \/ DirectoryTree /\ UNCHANGED <<searchVars, auxVars>>
    \/ ReadFiles /\ UNCHANGED <<searchVars, auxVars>>
    \/ SearchCode /\ UNCHANGED <<searchVars, auxVars>>
    \/ LFSFetch /\ UNCHANGED <<searchVars, auxVars>>
    \/ MergeBranch /\ UNCHANGED <<searchVars, auxVars>>
    \/ Settle /\ UNCHANGED <<cacheVars, searchVars, auxVars>>
    \/ HandlerReset /\ UNCHANGED <<cacheVars, searchVars, auxVars>>

HandlerSpec == HandlerInit /\ [][HandlerNext]_vars

\* ConcSpec: two calls of cloneRepo that overlap, each I/O operation one
\* step, in any interleaving.  Nothing in cloneRepo makes a call wait for
\* another.  Each invocation makes one call and keeps its result.
ConcInit ==
    /\ CacheInit
    /\ fs[RepoHash("w")] \in {Absent, Dir("repo", <<"w">>, 0)}
    /\ SearchIdle
    /\ HandlerIdle
    /\ AuxIdle

ConcStep(A) == A /\ UNCHANGED <<searchVars, handlerVars, auxVars>>

ConcNext ==
    \/ \E p \in Procs, u \in URLs : ConcStep(Start(p, u))
    \/ \E p \in Procs : ConcStep(PathExists(p))
    \/ \E p \in Procs : ConcStep(GetRemotes(p))
    \/ \E p \in Procs : ConcStep(Pull(p))
    \/ \E p \in Procs : ConcStep(Remove(p))
    \/ \E p \in Procs : ConcStep(RemoveDone(p))
    \/ \E p \in Procs : ConcStep(EnsureDir(p))
    \/ \E p \in Procs : ConcStep(Clone(p))
    \/ \E p \in Procs : ConcStep(CloneDone(p))
    \/ \E p \in Procs : ConcStep(Cleanup(p))
    \/ \E p \in Procs : ConcStep(CleanupDone(p))

ConcSpec == ConcInit /\ [][ConcNext]_vars

\* TreeSpec: getDirectoryTree on any working copy.
TreeInit ==
    /\ CacheQuiet
    /\ SearchIdle
    /\ HandlerIdle
    /\ TreeIdle
    /\ RegistryInit
    /\ BatchIdle
    /\ DeleteIdle
    /\ CleanIdle
    /\ AttrIdle

TreeStep(A) == A /\ UNCHANGED <<cacheVars, searchVars, handlerVars, registryVars, batchVars, deleteVars, cleanVars, attrVars>>

TreeNext ==
    \/ \E d \in RootDirs : TreeStep(OpenTree(d))
    \/ TreeStep(BuildTree)
    \/ TreeStep(TreeReturn)

TreeSpec == TreeInit /\ [][TreeNext]_vars

\* RegistrySpec: registrations, removals and tool calls in any order, from
\* the state the constructor leaves.
RegistryInit0 ==
    /\ CacheQuiet
    /\ SearchIdle
    /\ HandlerIdle
    /\ TreeIdle
    /\ RegistryInit
    /\ BatchIdle
    /\ DeleteIdle
    /\ CleanIdle
    /\ AttrIdle

RegistryStep(A) == A /\ UNCHANGED <<cacheVars, searchVars, handlerVars, treeVars, batchVars, deleteVars, cleanVars, attrVars>>

RegistryNext ==
    \/ \E n \in RegNames, h \in RegHandlers, i \in BOOLEAN :
          RegistryStep(RegisterHandler(n, h, i))
    \/ \E n \in RegNames : RegistryStep(UnregisterHandler(n))
    \/ \E n \in CallNames : RegistryStep(Lookup(n))

RegistrySpec == RegistryInit0 /\ [][RegistryNext]_vars

\* git_batch requests, one after the other, on the server as constructed.
BatchInit ==
    /\ CacheQuiet
    /\ SearchIdle
    /\ HandlerIdle
    /\ TreeIdle
    /\ RegistryInit
    /\ BatchIdle
    /\ DeleteIdle
    /\ CleanIdle
    /\ AttrIdle

BatchStep(A) == A /\ UNCHANGED <<cacheVars, searchVars, handlerVars, treeVars, deleteVars, cleanVars, attrVars>>

BatchNext ==
    \/ \E o \in BatchInputs : BatchStep(BatchCall(o))
    \/ BatchStep(BatchLoop)
    \/ \E r \in BatchResponses : BatchStep(BatchAwait(r))
    \/ BatchStep(BatchReset)

BatchSpec == BatchInit /\ [][BatchNext]_vars

\* Calls of the delete-branch tool, one after the other, on any repository.
DeleteInit ==
    /\ CacheQuiet
    /\ SearchIdle
    /\ HandlerIdle
    /\ TreeIdle
    /\ RegistryInit
    /\ BatchIdle
    /\ repo \in {r \in Repos : ValidRepo(r)}
    /\ dcall = NoDeleteCall
    /\ dpc = "idle"
    /\ gitCmds = <<>>
    /\ dres = NoDeleteResponse
    /\ CleanIdle
    /\ AttrIdle

DeleteStep(A) ==
    A /\ UNCHANGED <<cacheVars, searchVars, handlerVars, treeVars,
                     registryVars, batchVars, cleanVars, attrVars>>

DeleteNext ==
    \/ \E n \in BranchNames, f \in BOOLEAN : DeleteStep(DeleteBranchCheck(n, f))
    \/ \E m \in BOOLEAN : DeleteStep(DeleteLocalBranch(m))
    \/ DeleteStep(DeleteReset)

DeleteSpec == DeleteInit /\ [][DeleteNext]_vars

\* Calls of the clean tool, one after the other, on a working tree with
\* untracked entries.
CleanInit ==
    /\ CacheQuiet
    /\ SearchIdle
    /\ HandlerIdle
    /\ TreeIdle
    /\ RegistryInit
    /\ BatchIdle
    /\ DeleteIdle
    /\ CleanIdle
    /\ AttrIdle

CleanStep(A) ==
    A /\ UNCHANGED <<cacheVars, searchVars, handlerVars, treeVars,
                     registryVars, batchVars, deleteVars, attrVars>>

CleanNext ==
    \/ \E d \in BoolArgs, f \in BoolArgs, n \in BoolArgs :
          CleanStep(CleanCheck(d, f, n))
    \/ \E x \in BOOLEAN : CleanStep(CleanPreview(x))
    \/ \E x \in BOOLEAN : CleanStep(CleanRun(x))
    \/ \E x \in BOOLEAN : CleanStep(CleanReset(x))

CleanSpec == CleanInit /\ [][CleanNext]_vars

\* Calls of the attributes tool with the actions set and get, one after the
\* other, on any .gitattributes.
AttrInit ==
    /\ CacheQuiet
    /\ SearchIdle
    /\ HandlerIdle
    /\ TreeIdle
    /\ RegistryInit
    /\ BatchIdle
    /\ DeleteIdle
    /\ CleanIdle
    /\ attrFile \in AttrFiles
    /\ alast = NoSet
    /\ aout = NoGet
    /\ ares = "none"
    /\ asets = 0

AttrStep(A) ==
    A /\ UNCHANGED <<cacheVars, searchVars, handlerVars, treeVars,
                     registryVars, batchVars, deleteVars, cleanVars>>

AttrNext ==
    \/ \E p \in AttrStrings, a \in AttrStrings, f \in BOOLEAN :
          AttrStep(AttributesSet(p, a, f))
    \/ \E p \in AttrStrings, f \in BOOLEAN : AttrStep(AttributesGet(p, f))

AttrSpec == AttrInit /\ [][AttrNext]_vars


(***************************************************************************)
(* Claims about cloneRepo (acquireWorkingCopy), checked under Spec.        *)
(***************************************************************************)
Done(p) == pc[p] = "done"

\* The slot held, when the call started, a working copy whose primary remote
\* fetch URL is the requested URL.
StartedValid(p) ==
    /\ pre[p].kind = "repo"
    /\ Len(pre[p].remotes) > 0
    /\ pre[p].remotes[1] = url[p]

\* The slot held, when the call started, a working copy of another URL.
StartedForeign(p) ==
    /\ pre[p].kind = "repo"
    /\ Len(pre[p].remotes) > 0
    /\ pre[p].remotes[1] # url[p]

\* The slot holds a complete working copy whose primary remote is u.
WorkingCopyOf(dir, u) ==
    /\ dir.kind = "repo"
    /\ Len(dir.remotes) > 0
    /\ dir.remotes[1] = u

\* op1 was issued, and op2 was issued after it.
IssuedBefore(p, op1, op2) ==
    \E i, j \in 1..Len(ops[p]) : i < j /\ ops[p][i] = op1 /\ ops[p][j] = op2

Issued(p, op) == \E i \in 1..Len(ops[p]) : ops[p][i] = op

\* C1: whenever cloneRepo(u) returns a path, the directory at that path is a
\* working copy whose primary remote fetch URL is exactly u, for every initial
\* content of the slot and every sequential history of calls.
C1_ReturnsOnlyRequestedRemote ==
    \A p \in Procs :
        (Done(p) /\ res[p].ok) =>
            /\ res[p].path = TempDir(url[p])
            /\ WorkingCopyOf(fs[RepoHash(url[p])], url[p])

\* A call returned a path right after a call for another URL with the same key.
C1_Witness ==
    \E p \in Procs :
        /\ Done(p) /\ res[p].ok
        /\ prev.url # "" /\ prev.url # url[p]
        /\ RepoHash(prev.url) = RepoHash(url[p])

\* C2: two calls for the same URL one right after the other, the first one
\* succeeding and no failure injected in the second: the second returns the
\* same path, and it pulls without deleting or cloning.
C2_SecondCallRefreshes ==
    \A p \in Procs :
        (Done(p) /\ prev.url = url[p] /\ prev.res.ok /\ failed[p] = {}) =>
            /\ res[p].ok
            /\ res[p].path = prev.res.path
            /\ ops[p] = <<"pathExists", "getRemotes", "pull">>

C2_Witness ==
    \E p \in Procs :
        /\ Done(p) /\ prev.url = url[p] /\ prev.res.ok /\ failed[p] = {}
        /\ Issued(p, "pull")
        /\ fs[RepoHash(url[p])].rev = MaxRev

C5_ForeignSlotRecloned ==
    \A p \in Procs :
        (Done(p) /\ StartedForeign(p) /\ "clone" \notin failed[p]) =>
            /\ res[p].ok
            /\ res[p].path = TempDir(url[p])
            /\ IssuedBefore(p, "remove", "clone")
            /\ WorkingCopyOf(fs[RepoHash(url[p])], url[p])

\* C6: a slot that exists but is no working copy (an empty directory, a
\* directory of other files) is removed and u is cloned into the same path,
\* which is returned, provided the clone succeeds.
C6_InvalidSlotRecloned ==
    \A p \in Procs :
        (Done(p) /\ pre[p].kind \in {"empty", "junk"} /\ "clone" \notin failed[p]) =>
            /\ res[p].ok
            /\ res[p].path = TempDir(url[p])
            /\ ops[p] = <<"pathExists", "getRemotes", "remove", "ensureDir", "clone">>
            /\ fs[RepoHash(url[p])].kind = "repo"
            /\ fs[RepoHash(url[p])].remotes = <<url[p]>>

C6_Witness ==
    \E p \in Procs :
        /\ Done(p) /\ pre[p].kind = "junk" /\ res[p].ok
        /\ Issued(p, "remove")

\* C7: when the fresh clone fails the call raises an error that names the
\* clone failure and its cause, no directory remains at the path, and the next
\* call for that URL takes the fresh-clone branch (no validation, no pull).
C7_FailedCloneCleansUp ==
    \A p \in Procs :
        /\ (Done(p) /\ "clone" \in failed[p]) =>
              /\ ~res[p].ok
              /\ res[p].msg = <<"Failed to clone repository: ", "network">>
              /\ fs[RepoHash(url[p])] = Absent
        /\ (prev.url = url[p] /\ prev.res.msg = <<"Failed to clone repository: ", "network">>
            /\ Len(ops[p]) >= 2) =>
              /\ ops[p][2] = "ensureDir"
              /\ ~Issued(p, "getRemotes")
              /\ ~Issued(p, "pull")

C7_Witness ==
    \E p \in Procs :
        /\ prev.url = url[p]
        /\ prev.res.msg = <<"Failed to clone repository: ", "network">>
        /\ Done(p)
        /\ Issued(p, "clone")


\* How often op stands in the operations of p.
Count(p, op) == Cardinality({i \in 1..Len(ops[p]) : ops[p][i] = op})

C23_SlotAbsentOrValidAfterCall ==
    \A p \in Procs :
        Done(p) =>
            \/ fs[Slot(p)] = Absent
            \/ WorkingCopyOf(fs[Slot(p)], url[p])

\* A call that found a directory of another kind than a working copy of its
\* URL (files, an empty directory, a foreign clone) has ended.
C23_Witness ==
    \E p \in Procs :
        /\ Done(p)
        /\ pre[p].kind \in {"junk", "empty", "repo"}
        /\ ~WorkingCopyOf(pre[p], url[p])
        /\ ~res[p].ok
        /\ fs[Slot(p)] = Absent


(***************************************************************************)
(* Claims about the search structurer, checked under SearchSpec.  They are *)
(* stated on the lines git grep produced (grepOut) and the report built    *)
(* from their printed form.                                                *)
(***************************************************************************)
\* The context entries {line_number, content} of lines a..b of ls.
ContextOf(ls, a, b) ==
    [i \in 1..(b - a + 1) |->
        [line_number |-> ls[a + i - 1].num, content |-> ls[a + i - 1].text]]

MatchIndexes(ls) == {i \in 1..Len(ls) : ls[i].kind = "match"}

\* The k-th smallest element of a set of numbers.
Nth(S, k) == CHOOSE x \in S : Cardinality({y \in S : y < x}) = k - 1

\* Match and context lines of one file only.
OneFileOutput(ls) ==
    /\ Len(ls) > 0
    /\ \A i \in 1..Len(ls) : ls[i].kind \in {"match", "context"} /\ ls[i].file = ls[1].file

\* N context lines, one match line, M context lines, all of one file.
SingleMatchBlock(ls) == OneFileOutput(ls) /\ Cardinality(MatchIndexes(ls)) = 1

\* The matches of all entries of results, in order.
RECURSIVE AllMatches(_, _)
AllMatches(results, i) ==
    IF i > Len(results) THEN <<>>
    ELSE results[i].matches \o AllMatches(results, i + 1)

\* The report is built, from lines whose file name has two characters or more
\* and whose text holds neither ":" nor "-".  The claims below are about the
\* grouping of lines and are stated for such output, where the shape of every
\* line is beyond doubt.
Grouped ==
    /\ sphase = "done"
    /\ \A i \in 1..Len(grepOut) :
          grepOut[i].kind \in {"match", "context"} =>
              /\ Len(grepOut[i].file) >= 2
              /\ \A j \in 1..Len(grepOut[i].text) : grepOut[i].text[j] \notin {":", "-"}

\* C8: N context lines, one match line and M context lines of one file give
\* exactly one SearchFileResult with one SearchMatch, whose context_before has
\* the N lines before, whose context_after has the M lines after, and whose
\* line_number and content are those of the match line; both totals are 1.
C8_SingleMatchRoundTrip ==
    (Grouped /\ SingleMatchBlock(grepOut)) =>
        LET k == Nth(MatchIndexes(grepOut), 1) IN
        /\ Len(report.results) = 1
        /\ report.results[1].file = grepOut[k].file
        /\ Len(report.results[1].matches) = 1
        /\ report.results[1].matches[1].line_number = grepOut[k].num
        /\ report.results[1].matches[1].content = grepOut[k].text
        /\ report.results[1].matches[1].context_before = ContextOf(grepOut, 1, k - 1)
        /\ report.results[1].matches[1].context_after =
               ContextOf(grepOut, k + 1, Len(grepOut))
        /\ report.total_matches = 1
        /\ report.total_files = 1

\* The line numbers of the match lines of file f, in output order.
RECURSIVE MatchNumsOf(_, _, _)
MatchNumsOf(ls, f, i) ==
    IF i > Len(ls) THEN <<>>
    ELSE (IF ls[i].kind = "match" /\ ls[i].file = f THEN <<ls[i].num>> ELSE <<>>)
         \o MatchNumsOf(ls, f, i + 1)

FilesWithMatch(ls) == {ls[i].file : i \in MatchIndexes(ls)}

\* C9: results holds exactly one SearchFileResult per file with a match: no
\* file name in two entries, all match lines of a file in the matches of its
\* entry, in output order, and total_files the number of such files.
C9_OneResultPerFile ==
    Grouped =>
        /\ \A i, j \in 1..Len(report.results) :
              i # j => report.results[i].file # report.results[j].file
        /\ \A f \in FilesWithMatch(grepOut) :
              \E i \in 1..Len(report.results) :
                  /\ report.results[i].file = f
                  /\ [k \in 1..Len(report.results[i].matches) |->
                         report.results[i].matches[k].line_number]
                       = MatchNumsOf(grepOut, f, 1)
        /\ report.total_files = Cardinality(FilesWithMatch(grepOut))

\* Where the context lines of one file's output belong: those before the
\* first match are its context_before, those after a match, up to the next
\* match or the end, are its context_after.
AttachedContext(ls) ==
    LET ms == MatchIndexes(ls)
        n  == Cardinality(ms)
    IN  [k \in 1..n |->
            [line_number |-> ls[Nth(ms, k)].num,
             content |-> ls[Nth(ms, k)].text,
             context_before |->
                 IF k = 1 THEN ContextOf(ls, 1, Nth(ms, 1) - 1) ELSE <<>>,
             context_after |->
                 ContextOf(ls, Nth(ms, k) + 1,
                           IF k = n THEN Len(ls) ELSE Nth(ms, k + 1) - 1)]]

\* C10: within one file's output every context line is attached to a match
\* and none is lost: before the first match, between two matches (to the
\* earlier one), after the last match.
C10_ContextAttached ==
    (Grouped /\ OneFileOutput(grepOut) /\ MatchIndexes(grepOut) # {}) =>
        LET got == AllMatches(report.results, 1) IN
        [k \in 1..Len(got) |->
            [line_number |-> got[k].line_number,
             content |-> got[k].content,
             context_before |-> got[k].context_before,
             context_after |-> got[k].context_after]]
          = AttachedContext(grepOut)

\* C11: the shape of a line is decided by the separator after its line-number
\* field alone: every printed line file:digits:content is read as a match
\* line and every printed line file-digits-content as a context line,
\* whatever the file name and the content hold; the line number read is that
\* field and the content read is all the text after the separator.
C11_SeparatorDecidesShape ==
    sphase = "done" =>
        \A i \in 1..Len(grepOut) :
            /\ grepOut[i].kind = "match" =>
                  /\ LineNumberMatch(stdout[i]).found
                  /\ LineNumberMatch(stdout[i]).num = grepOut[i].num
                  /\ LineNumberMatch(stdout[i]).content = grepOut[i].text
            /\ grepOut[i].kind = "context" =>
                  /\ ~LineNumberMatch(stdout[i]).found
                  /\ ContextMatch(stdout[i]).found
                  /\ ContextMatch(stdout[i]).num = grepOut[i].num
                  /\ ContextMatch(stdout[i]).content = grepOut[i].text

\* ls without its i-th line.
Without(ls, i) == SubSeq(ls, 1, i - 1) \o SubSeq(ls, i + 1, Len(ls))

\* C12: a line of neither shape (a blank line, the "--" separator, a binary
\* file notice) is dropped and has no other effect: the results are those of
\* the same output without that line, wherever the line stands.
C12_OtherLineHasNoEffect ==
    sphase = "done" =>
        \A i \in 1..Len(grepOut) :
            grepOut[i].kind = "other" =>
                report.results = Results(PrintedAll(Without(grepOut, i)))

\* C13: for every raw output, the empty one included, total_matches is the
\* number of matches over all entries of results and total_files is the
\* number of entries; for the empty output results is [] and both totals
\* are 0.
C13_TotalsAgree ==
    sphase = "done" =>
        /\ report.total_matches = Len(AllMatches(report.results, 1))
        /\ report.total_files = Len(report.results)
        /\ stdout = <<>> =>
              /\ report.results = <<>>
              /\ report.total_matches = 0
              /\ report.total_files = 0

\* A report whose two totals differ: one entry with two matches.
C13_Witness ==
    /\ sphase = "done"
    /\ report.total_files = 1
    /\ report.total_matches = 2

\* A section of context-shaped lines only: the output has context lines, all
\* of one file, and no other line.
ContextOnlySection(ls) ==
    /\ Len(ls) > 0
    /\ \A i \in 1..Len(ls) : ls[i].kind = "context" /\ ls[i].file = ls[1].file

\* C14: every entry of results has at least one match; a file section made
\* of context-shaped lines only adds no entry.
C14_NoEmptyEntry ==
    sphase = "done" =>
        /\ \A i \in 1..Len(report.results) : Len(report.results[i].matches) >= 1
        /\ ContextOnlySection(grepOut) => report.results = <<>>

\* A section of context lines only whose first line gives a file name (it
\* holds a colon), so that the section reaches the test of line 203.
C14_Witness ==
    /\ sphase = "done"
    /\ ContextOnlySection(grepOut)
    /\ FileNameMatch(stdout[1]).found
    /\ ~LineNumberMatch(stdout[1]).found

(***************************************************************************)
(* Claims about the tool handlers, checked under HandlerSpec.              *)
(***************************************************************************)
\* A handler was called and its call has ended.
Settled == hpc = "settled" /\ tool # ""

\* C16: every call of a tool handler, whatever the argument (a missing
\* argument object and missing fields included) and whatever step fails,
\* ends by returning a response; no exception leaves the handler, so the
\* dispatcher never has an error of a handler to rethrow.
C16_HandlerAlwaysReturns ==
    Settled =>
        /\ hres.kind = "returned"
        /\ hres.resp.shape \in {"json", "text"}
        /\ caller = "dispatch" => wire = "result"

\* The cloneRepo call of the settled handler call returned a path.
AcquisitionSucceeded ==
    /\ args.repo # ""
    /\ prev.url = args.repo
    /\ prev.res.ok

\* The text the file-read tool owes for a path: the content of a readable
\* file, an error string for a missing or unreadable one.
OwedEntry(path, value) ==
    IF path = "file" THEN value = "content"
    ELSE value \in {"Error: File not found", "Error reading file: EISDIR"}

ErrorObject(r) == r.shape = "json" /\ "error" \in r.keys

\* C18: every response of every handler, the directory-listing tool
\* included, is a success payload without error marker or an object
\* {error: message} with isError = true: isError is set if and only if the
\* payload is such an error object.
C18_ErrorFlagIffErrorObject ==
    (Settled /\ hres.kind = "returned") =>
        (hres.resp.isError <=> ErrorObject(hres.resp))

(***************************************************************************)
(* Claims about overlapping calls of cloneRepo, checked under ConcSpec.    *)
(***************************************************************************)
\* The invocation is deleting or cloning its directory.
Writing(q) == pc[q] \in {"removing", "cloning", "cleaning"}

\* C19: two calls of cloneRepo for the same URL, interleaved at their I/O
\* operations.  No call waits for the other: while one is deleting or cloning
\* the directory, the other may start, test the directory, read its remotes
\* and pull.  So a call can validate, pull and return the path of a
\* directory that is half written or half deleted (the witness).
C19_NoCallWaitsForTheOther ==
    \A p, q \in Procs :
        (p # q /\ Writing(q)) =>
            /\ pc[p] = "idle" => ENABLED Start(p, url[q])
            /\ (pc[p] = "pathExists" /\ url[p] = url[q]) => ENABLED PathExists(p)
            /\ (pc[p] = "getRemotes" /\ url[p] = url[q]) => ENABLED GetRemotes(p)
            /\ (pc[p] = "pull" /\ url[p] = url[q]) => ENABLED Pull(p)

\* One call has validated the directory, pulled and returned its path while
\* the other call, for the same URL, is in the middle of its clone.
C19_Witness ==
    \E p, q \in Procs :
        /\ p # q
        /\ url[p] = url[q]
        /\ pc[q] = "cloning"
        /\ fs[Slot(q)].kind = "partial"
        /\ Done(p) /\ res[p].ok
        /\ Issued(p, "getRemotes") /\ Issued(p, "pull")

\* What a call of cloneRepo(u) that runs alone ends with, from the content of
\* its slot at the start and the operations that fail: the result and the
\* content of the slot at the end.
AloneFresh(u, f) ==
    IF "clone" \in f
    THEN [res |-> CloneError("network"), slot |-> Absent]
    ELSE [res |-> Returned(TempDir(u)), slot |-> Dir("repo", <<u>>, upstream[u])]

Alone(dir, u, f) ==
    IF dir.kind # "repo" THEN AloneFresh(u, f)
    ELSE IF WorkingCopyOf(dir, u)
         THEN IF "pull" \in f THEN AloneFresh(u, f)
              ELSE [res |-> Returned(TempDir(u)),
                    slot |-> Dir("repo", dir.remotes, upstream[u])]
         ELSE [res |-> CloneError("destination not empty"), slot |-> Absent]

\* No other call has been at work on the key of p's URL.
KeyToItself(p) ==
    \A q \in Procs \ {p} : pc[q] = "idle" \/ RepoHash(url[q]) # RepoHash(url[p])

\* A step of p leaves the directory of every other key as it was.
OtherKeysUntouched(p) ==
    pc'[p] # pc[p] =>
        \A k \in Keys : k # RepoHash(url'[p]) => fs'[k] = fs[k]

\* C20: a call of cloneRepo(u) never creates, changes or deletes the
\* directory of a key other than that of u; and a call whose key no
\* overlapping call shares ends, in every interleaving, with the result and
\* the slot content it ends with when it runs alone.
C20_DistinctKeysDoNotInterfere ==
    /\ [][\A p \in Procs : OtherKeysUntouched(p)]_vars
    /\ [](\A p \in Procs :
            (Done(p) /\ KeyToItself(p)) =>
                /\ res[p] = Alone(pre[p], url[p], failed[p]).res
                /\ fs[Slot(p)] = Alone(pre[p], url[p], failed[p]).slot)

\* A call has cloned and returned while a call for a URL of another key is
\* in the middle of deleting or cloning its own directory.
C20_Witness ==
    \E p, q \in Procs :
        /\ p # q
        /\ RepoHash(url[p]) # RepoHash(url[q])
        /\ Writing(q)
        /\ Done(p) /\ res[p].ok
        /\ Issued(p, "clone")

(***************************************************************************)
(* Claims about getDirectoryTree, checked under TreeSpec.                  *)
(***************************************************************************)
\* The name begins with ".git".
BeginsDotGit(name) ==
    /\ Len(name) >= 4
    /\ name[1] = "." /\ name[2] = "g" /\ name[3] = "i" /\ name[4] = "t"

\* The entries of a directory that are to be listed.
Listable(dir) == {e \in dir : ~BeginsDotGit(e.name)}

\* The lines of the listing that belong to the root directory.
TopLines == {i \in 1..Len(listing) : Len(listing[i].prefix) = 0}

\* Lines i+1 .. i+n are the n listable entries of dir, one level down, in
\* ascending order of names, each once.
ChildrenFollow(dir, i) ==
    LET n == Cardinality(Listable(dir)) IN
    /\ i + n <= Len(listing)
    /\ \A j \in 1..n : Len(listing[i + j].prefix) = 1
    /\ {listing[i + j].name : j \in 1..n} = {e.name : e \in Listable(dir)}
    /\ \A j, k \in 1..n : j < k => NameLess(listing[i + j].name, listing[i + k].name)
    /\ (i + n < Len(listing)) => Len(listing[i + n + 1].prefix) = 0

\* C22: the listing holds, for every directory of the working copy, each
\* entry whose name does not begin with ".git" once, in lexicographic order,
\* a directory being followed directly by the listing of its children; no
\* entry whose name begins with ".git" and nothing beneath one is listed.
C22_ListsAllButDotGit ==
    tphase = "done" =>
        /\ \A i \in 1..Len(listing) : ~BeginsDotGit(listing[i].name)
        /\ Len(listing) > 0 => 1 \in TopLines
        /\ {listing[i].name : i \in TopLines} = {e.name : e \in Listable(tree)}
        /\ \A i, j \in TopLines : i < j => NameLess(listing[i].name, listing[j].name)
        /\ \A i \in TopLines :
              LET e == CHOOSE x \in tree : x.name = listing[i].name
              IN  ChildrenFollow(IF e.isDir THEN e.children ELSE {}, i)

\* A listed working copy with a ".git" directory that is not empty, a file
\* ".gitk", and a listed directory that holds a ".git" entry and another.
C22_Witness ==
    /\ tphase = "done"
    /\ \E e \in tree : e.name = NameGit /\ e.children # {}
    /\ \E e \in tree : e.name = NameGitk
    /\ \E e \in Listable(tree) :
          /\ e.isDir
          /\ Listable(e.children) # {}
          /\ Listable(e.children) # e.children
    /\ Len(listing) >= 3

(***************************************************************************)
(* Claims about the registry, checked under RegistrySpec.                  *)
(***************************************************************************)
\* The step is a tool call whose name is looked up.
Called(name) == invoked' # invoked /\ invoked'.name = name

\* C24: after any sequence of registerHandler and unregisterHandler calls,
\* every tool name the tool-listing request returns has a handler in the
\* handler map, and a call of a listed tool is never answered with
\* MethodNotFound.
C24_ListedToolsHaveHandlers ==
    /\ [](\A n \in ListTools : HasHandler(handlersMap, n))
    /\ [][\A n \in ListTools : Called(n) => invoked'.handler # "MethodNotFound"]_vars

\* C25: after any sequence of registerHandler and unregisterHandler calls, a
\* call through an alias invokes the handler registered, at that time, under
\* the alias's target, and is answered with MethodNotFound when the target
\* has no handler.
C25_AliasFollowsTarget ==
    [][\A a \in DOMAIN HandlerAliases :
          Called(a) =>
              invoked'.handler =
                  IF HasHandler(handlersMap, HandlerAliases[a])
                  THEN handlersMap[HandlerAliases[a]]
                  ELSE "MethodNotFound"]_vars

\* ---------------------------------------------------------------------
\* Claims about git_batch.
\* ---------------------------------------------------------------------

BatchOver == bpc = "done" /\ batch # <<>>

AllNamesKnown ==
    \A i \in 1..Len(batch) : HasHandler(handlersMap, batch[i].name)

\* The index of the first operation whose name has no handler.
FirstUnknown ==
    CHOOSE i \in 1..Len(batch) :
        /\ ~HasHandler(handlersMap, batch[i].name)
        /\ \A j \in 1..(i - 1) : HasHandler(handlersMap, batch[j].name)

\* The handlers run strictly one after the other in the listed order: the
\* log reads start 1, end 1, start 2, end 2, ...
InListedOrder ==
    \A k \in 1..Len(blog) :
        /\ blog[k].op = (k + 1) \div 2
        /\ blog[k].ev = IF k % 2 = 1 THEN "start" ELSE "end"

\* Operations 1..n have run to their return and no other has started.
RanExactly(n) ==
    /\ Len(blog) = 2 * n
    /\ InListedOrder

\* C26: git_batch runs its operations in the listed order, each handler
\* starting after the previous one has returned; a failure response does not
\* stop the later ones; with every name known the result list has one
\* response per operation; at the first unknown name the batch raises
\* MethodNotFound, runs no later operation and returns no response, the
\* operations before it having run.
C26_BatchInOrder ==
    /\ InListedOrder
    /\ BatchOver /\ AllNamesKnown =>
          /\ bout.kind = "results"
          /\ Len(bout.results) = Len(batch)
          /\ RanExactly(Len(batch))
    /\ BatchOver /\ ~AllNamesKnown =>
          /\ bout.kind = "MethodNotFound"
          /\ bout.results = <<>>
          /\ RanExactly(FirstUnknown - 1)

\* The same for requests whose operations all carry arguments.
AllWithArguments == \A i \in 1..Len(batch) : batch[i].hasArgs

BatchInOrderWithArguments == AllWithArguments => C26_BatchInOrder

\* ---------------------------------------------------------------------
\* Claims about the delete-branch tool.
\* ---------------------------------------------------------------------

CannotDeleteCurrent ==
    [isError |-> TRUE, error |-> "Cannot delete the currently checked out branch"]

\* A call of the delete-branch tool begins in this step.
DeleteBegins == dpc = "idle" /\ dpc' # "idle"

\* C27: when branch_name is the branch checked out, the delete-branch tool,
\* for force true and false alike, returns the failure "Cannot delete the
\* currently checked out branch", issues no branch deletion and leaves the
\* branches of the repository as they are.
C27_CurrentBranchNeverDeleted ==
    /\ [](\A k \in 1..Len(gitCmds) :
             repo.isRepo => gitCmds[k].branch # repo.current)
    /\ [][DeleteBegins /\ repo.isRepo /\ dcall'.branch_name = repo.current =>
             /\ dpc' = "done"
             /\ dres' = CannotDeleteCurrent
             /\ gitCmds' = <<>>
             /\ repo' = repo]_vars

C27_Witness ==
    /\ dpc = "done"
    /\ repo.isRepo
    /\ dcall.branch_name = repo.current
    /\ dcall.force
    /\ dres = CannotDeleteCurrent
    /\ Cardinality(repo.branches) = 2

\* ---------------------------------------------------------------------
\* Claims about the clean tool.
\* ---------------------------------------------------------------------

CleanRunning == cpc # "idle"

\* C28: the clean tool removes files only when dry_run is false and force is
\* true; with dry_run true it issues only the dry-run preview and removes
\* nothing, force or not; with force false and dry_run false it returns an
\* error and issues no clean command.
C28_CleanOnlyWhenForcedAndNotDryRun ==
    /\ [](CleanRunning /\ ccall.dry_run =>
             \A k \in 1..Len(cleanCmds) :
                 cleanCmds[k] = PreviewOptions(ccall.directories))
    /\ [](CleanRunning /\ ~ccall.force /\ ~ccall.dry_run =>
             /\ cpc = "done"
             /\ cres.isError
             /\ cleanCmds = <<>>)
    /\ [][cpc' # "idle" /\ untracked' # untracked =>
             ~ccall'.dry_run /\ ccall'.force]_vars

C28_Witness ==
    /\ cpc = "done"
    /\ ccall.dry_run
    /\ ccall.force
    /\ ~cres.isError
    /\ cleanCmds = <<PreviewOptions(ccall.directories)>>
    /\ untracked = Untracked

\* A forced call without dry_run has removed the untracked entries.
CleanRemoved ==
    cpc = "done" /\ ~ccall.dry_run /\ ccall.force /\ untracked = {}

\* ---------------------------------------------------------------------
\* Claims about the attributes tool.
\* ---------------------------------------------------------------------

\* The lines of .gitattributes that begin with the pattern.
LinesOfPattern(lines, pattern) ==
    {i \in 1..Len(lines) : LineParts(lines[i])[1] = pattern}

\* The lines that are not empty and begin with something else.
LinesOfOthers(lines, pattern) ==
    SelectSeq(lines, LAMBDA l : l # <<>> /\ LineParts(l)[1] # pattern)

\* How often the attribute stands among the attributes of a line.
TimesListed(line, attribute) ==
    Cardinality({k \in 2..Len(LineParts(line)) : LineParts(line)[k] = attribute})

\* A second set(pattern, attribute) would leave the file as it is.
SetAgainChangesNothing ==
    WrittenLines(SetLines(attrFile.lines, alast.pattern, alast.attribute))
        = attrFile.lines

OnOneLineListedOnce ==
    /\ Cardinality(LinesOfPattern(attrFile.lines, alast.pattern)) = 1
    /\ \A i \in LinesOfPattern(attrFile.lines, alast.pattern) :
          TimesListed(attrFile.lines[i], alast.attribute) = 1

OtherPatternsKept ==
    LinesOfOthers(attrFile.lines, alast.pattern) =
        LinesOfOthers(alast.before.lines, alast.pattern)

GetFollowsSet ==
    ares' = "get" /\ alast.done /\ aout'.pattern = alast.pattern

\* C29: for every non-empty pattern and attribute, a second set(pattern,
\* attribute) leaves .gitattributes as the first one left it, with the
\* pattern on one line and the attribute listed once; set changes no line of
\* another pattern except that empty lines are dropped; and get(pattern)
\* after a successful set returns a list that contains the attribute.
C29_SetIdempotentAndGetSeesIt ==
    /\ [](alast.done =>
             /\ SetAgainChangesNothing
             /\ OnOneLineListedOnce
             /\ OtherPatternsKept)
    /\ [][GetFollowsSet => Includes(aout'.attributes, alast.attribute)]_vars

\* The calls the tool is made for: pattern and attribute are single words
\* and differ, and before the call the pattern stood on at most one line,
\* with the attribute at most once.
PlainSet ==
    /\ alast.done
    /\ alast.pattern # alast.attribute
    /\ \A k \in 1..Len(alast.pattern) : ~IsSpace(alast.pattern[k])
    /\ \A k \in 1..Len(alast.attribute) : ~IsSpace(alast.attribute[k])
    /\ Cardinality(LinesOfPattern(alast.before.lines, alast.pattern)) <= 1
    /\ \A i \in LinesOfPattern(alast.before.lines, alast.pattern) :
          TimesListed(alast.before.lines[i], alast.attribute) <= 1

PlainSetIdempotentAndGetSeesIt ==
    /\ [](PlainSet =>
             /\ SetAgainChangesNothing
             /\ OnOneLineListedOnce
             /\ OtherPatternsKept)
    /\ [][GetFollowsSet /\ PlainSet =>
             Includes(aout'.attributes, alast.attribute)]_vars

\* ---------------------------------------------------------------------
\* Claims about the connectors of the directory listing.
\* ---------------------------------------------------------------------

\* The last line of the listing that belongs to the root directory.
LastTopLine == CHOOSE i \in TopLines : \A j \in TopLines : j <= i

\* The line of the root entry that line i stands beneath.
ParentLine(i) == CHOOSE p \in TopLines : p < i /\ \A q \in TopLines : q < i => q <= p

\* Line i is the last line of its directory.
LastOfDirectory(i) ==
    IF i \in TopLines THEN i = LastTopLine
    ELSE i = Len(listing) \/ (i + 1) \in TopLines

\* C30: in every directory with a listed entry, exactly the last listed
\* entry has the last-entry connector and its descendants are indented with
\* spaces; every other listed entry has the branch connector and its
\* descendants are indented with the vertical bar; the excluded entries of
\* the directory make no difference.
C30_LastListedEntryClosesBranch ==
    tphase = "done" =>
        \A i \in 1..Len(listing) :
            /\ listing[i].connector =
                  IF LastOfDirectory(i) THEN "+-- " ELSE "|-- "
            /\ i \notin TopLines =>
                  listing[i].prefix =
                      IF ParentLine(i) = LastTopLine THEN <<"    ">> ELSE <<"|   ">>

\* The same for directories whose last entry in sorted order is listed.
LastSortedIsListed(dir) ==
    dir # {} => ~BeginsDotGit(SortNames(Readdir(dir))[Cardinality(dir)])

NoDirectoryEndsExcluded ==
    /\ LastSortedIsListed(tree)
    /\ \A e \in Listable(tree) : LastSortedIsListed(e.children)

ConnectorsWhenLastIsListed ==
    NoDirectoryEndsExcluded => C30_LastListedEntryClosesBranch

====
